---- MODULE Spec2Model ----
(***************************************************************************)
(* State-machine model of the bright-store-apps core: the RobustAPL        *)
(* credential store wrapper, the manual registration handshake, the        *)
(* Razorpay settings/secrets manager and the payment webhook handlers.     *)
(* Strings whose structure matters (URLs, keys, credentials) are sequences *)
(* of one-character strings, so that concatenation, slicing and splitting  *)
(* are computed as the code computes them.                                 *)
(***************************************************************************)
EXTENDS Integers, Sequences, FiniteSets, TLC

VARIABLES
    backend,        \* the shared physical credential store: key -> AuthData | Null
    aplResp,        \* result of the last RobustAPL call
    allowedUrls,    \* process.env.ALLOWED_DOMAIN_PATTERN (a regular expression, as the set it matches)
    regResp,        \* response of the last manual-register request
    env,            \* process.env of the razorpay app and what getDocClient() yields
    settingsItem,   \* the tenant's stored SETTINGS item (encrypted) or Null
    clock,          \* the wall clock read by new Date()
    setResp,        \* last response of the settings API / result of maskSettings
    saves,          \* the saveSettings calls in flight: between their read and their write
    provider,       \* the payment provider: payment states and capture calls received
    txLog,          \* the tenant's transaction log, oldest first
    payResp,        \* response of the last completed payment handler
    charge,         \* the in-flight transaction-charge-requested requests
    nreq            \* number of payment requests received

aplVars == <<backend, aplResp, allowedUrls, regResp>>
setVars == <<env, settingsItem, clock, setResp, saves>>
payVars == <<provider, txLog, payResp, charge, nreq>>
vars == <<backend, aplResp, allowedUrls, regResp, env, settingsItem, clock, setResp, saves,
          provider, txLog, payResp, charge, nreq>>

\* undefined / null results of the stores
Null == [absent |-> TRUE]

\* ------------------------------------------------------------------ bounds

\* number of distinct access tokens a tenant may present
NumTokens == 2

Tokens == {<<"t", i>> : i \in 1..NumTokens}

\* ------------------------------------------------------------ string helpers

\* String.prototype.endsWith("/")
EndsWithSlash(s) == Len(s) > 0 /\ s[Len(s)] = "/"

\* String.prototype.slice(start) for one argument
SliceFrom(s, start) ==
    LET n == Len(s)
        from == IF start < 0 THEN (IF n + start < 0 THEN 0 ELSE n + start)
                ELSE (IF start > n THEN n ELSE start)
    IN  SubSeq(s, from + 1, n)

\* String.prototype.slice(0, -1)
DropLast(s) == IF Len(s) = 0 THEN s ELSE SubSeq(s, 1, Len(s) - 1)

\* ------------------------------------------------ razorpay settings module

CredFields == { "testKeyId", "testKeySecret", "testWebhookSecret",
                "liveKeyId", "liveKeySecret", "liveWebhookSecret" }

PlainFields == { "enabled", "title", "description", "mode", "paymentAction",
                 "magicCheckout", "debugMode", "updatedAt" }

Fields == CredFields \cup PlainFields

\* DEFAULT_SETTINGS; updatedAt is the module's load time
DEFAULT_SETTINGS ==
    [ enabled |-> FALSE, title |-> <<"T">>, description |-> <<"D">>,
      mode |-> "test",
      testKeyId |-> <<>>, testKeySecret |-> <<>>, testWebhookSecret |-> <<>>,
      liveKeyId |-> <<>>, liveKeySecret |-> <<>>, liveWebhookSecret |-> <<>>,
      paymentAction |-> "authorize_capture", magicCheckout |-> FALSE,
      debugMode |-> FALSE, updatedAt |-> 0 ]

\* an encrypt that stores the plaintext
encryptPlain(plaintext, iv, key) == plaintext

\* encrypt: "" stays "", otherwise `${iv}:${authTag}:${encrypted}` under the
\* key derived from SECRET_KEY; iv is the fresh random nonce of the call
encrypt(plaintext, iv, key) ==
    IF plaintext = <<>> THEN <<>>
    ELSE << iv, <<"tag", key, iv, plaintext>>, <<"aes", key, iv, plaintext>> >>

\* decrypt throws: not three parts, or the GCM tag does not verify
decryptThrows(ciphertext, key) ==
    /\ ciphertext # <<>>
    /\ \/ Len(ciphertext) # 3
       \/ ciphertext[2] # <<"tag", key, ciphertext[1], ciphertext[3][4]>>
       \/ ciphertext[3][2] # key
       \/ ciphertext[3][3] # ciphertext[1]

\* decrypt: "" stays "", otherwise the plaintext of the third part
decrypt(ciphertext, key) ==
    IF ciphertext = <<>> THEN <<>> ELSE ciphertext[3][4]

\* getSettings: the stored item decrypted; DEFAULT_SETTINGS when the item is
\* absent and also when the read or a decrypt throws (the catch block)
getSettings(item, readOk, key) ==
    IF ~readOk THEN DEFAULT_SETTINGS
    ELSE IF item = Null THEN DEFAULT_SETTINGS
    ELSE IF \E f \in CredFields : decryptThrows(item[f], key) THEN DEFAULT_SETTINGS
    ELSE [ f \in Fields |->
             IF f \in CredFields THEN decrypt(item[f], key) ELSE item[f] ]

\* { ...existing, ...settings, updatedAt: new Date().toISOString() }
Merged(existing, settings, now) ==
    [ f \in Fields |->
        IF f = "updatedAt" THEN now
        ELSE IF f \in DOMAIN settings THEN settings[f]
        ELSE existing[f] ]

\* itemToStore of saveSettings: credentials encrypted, each call to encrypt
\* with its own fresh iv
ItemToStore(merged, now, key) ==
    [ f \in Fields |->
        IF f \in CredFields THEN encrypt(merged[f], <<now, f>>, key) ELSE merged[f] ]

\* saveSettings up to the PutCommand: what is returned and what is written
saveSettings(item, settings, readOk, now, key) ==
    LET existing == getSettings(item, readOk, key)
        merged == Merged(existing, settings, now)
    IN  [ merged |-> merged, item |-> ItemToStore(merged, now, key) ]

\* ---------------------------------------------------------------- masking

\* default of maskValue's showLast parameter
ShowLastDefault == 4

Stars == << "*", "*", "*", "*" >>

\* maskValue(value, showLast)
maskValue(value, showLast) ==
    IF value = <<>> THEN <<>>
    ELSE IF Len(value) <= showLast THEN Stars
    ELSE Stars \o SliceFrom(value, 0 - showLast)

\* value.split("_")
RECURSIVE SplitUnderscore(_)
SplitUnderscore(value) ==
    IF \A i \in 1..Len(value) : value[i] # "_" THEN << value >>
    ELSE LET i == CHOOSE i \in 1..Len(value) :
                    value[i] = "_" /\ \A j \in 1..(i - 1) : value[j] # "_"
         IN  << SubSeq(value, 1, i - 1) >>
                \o SplitUnderscore(SubSeq(value, i + 1, Len(value)))

\* maskKeyId(value)
maskKeyId(value) ==
    IF value = <<>> THEN <<>>
    ELSE LET parts == SplitUnderscore(value)
         IN  IF Len(parts) >= 3
             THEN parts[1] \o <<"_">> \o parts[2] \o <<"_">> \o Stars
                      \o SliceFrom(value, 0 - ShowLastDefault)
             ELSE maskValue(value, ShowLastDefault)

\* maskSettings(settings)
maskSettings(settings) ==
    [ enabled |-> settings.enabled,
      title |-> settings.title,
      description |-> settings.description,
      mode |-> settings.mode,
      testKeyId |-> maskKeyId(settings.testKeyId),
      testKeySecret |-> maskValue(settings.testKeySecret, 0),
      testWebhookSecret |-> maskValue(settings.testWebhookSecret, 0),
      liveKeyId |-> maskKeyId(settings.liveKeyId),
      liveKeySecret |-> maskValue(settings.liveKeySecret, 0),
      liveWebhookSecret |-> maskValue(settings.liveWebhookSecret, 0),
      paymentAction |-> settings.paymentAction,
      magicCheckout |-> settings.magicCheckout,
      debugMode |-> settings.debugMode,
      updatedAt |-> settings.updatedAt,
      hasTestKeys |-> (settings.testKeyId # <<>> /\ settings.testKeySecret # <<>>),
      hasLiveKeys |-> (settings.liveKeyId # <<>> /\ settings.liveKeySecret # <<>>) ]

\* credential values a tenant may configure
KeyIdValues ==
    { <<>>,
      << "r", "z", "p", "_", "t", "e", "s", "t", "_", "a", "b", "c", "d", "1", "2", "3", "4" >>,
      << "k", "e", "y", "i", "d", "9" >>,
      << "k", "1" >> }

SecretValues ==
    { <<>>, << "s", "e", "c", "r", "e", "t", "1" >>, << "p", "w" >> }

WebhookSecretValues == { <<>>, << "w", "h", "s", "e", "c", "0" >> }

CredValues(f) ==
    IF f \in { "testKeyId", "liveKeyId" } THEN KeyIdValues
    ELSE IF f \in { "testKeySecret", "liveKeySecret" } THEN SecretValues
    ELSE WebhookSecretValues

\* a request body without fields
EmptyBody == [ f \in {} |-> TRUE ]

NoSetResp == [ op |-> "none", status |-> 0, body |-> EmptyBody,
               input |-> DEFAULT_SETTINGS, masked |-> maskSettings(DEFAULT_SETTINGS) ]

EnvDefault ==
    [ docClient |-> TRUE, SECRET_KEY |-> "k1",
      RAZORPAY_KEY_ID |-> <<>>, RAZORPAY_KEY_SECRET |-> <<>>,
      RAZORPAY_WEBHOOK_SECRET |-> <<>> ]

\* the two saveSettings calls that may overlap
Calls == { 1, 2 }

IdleSave ==
    [ pc |-> "idle", settings |-> EmptyBody, seen |-> Null,
      existing |-> DEFAULT_SETTINGS, result |-> "none", at |-> 0 ]

NoSaves == [ c \in Calls |-> IdleSave ]

SettingsIdle ==
    /\ env = EnvDefault
    /\ settingsItem = Null
    /\ clock = 0
    /\ setResp = NoSetResp
    /\ saves = NoSaves


\* --------------------------------------------------- payment provider, log

\* HMAC-SHA256(key, message).digest("hex"), abstracted to a string of two
\* symbols, one fixed by the key and one by the message: distinct
\* (key, message) pairs have distinct digests
HmacSha256(key, message) == << <<"k", key>>, <<"m", message>> >>

\* `${razorpay_order_id}|${razorpay_payment_id}`
SignedPayload(orderId, paymentId) == orderId \o <<"|">> \o paymentId

\* Amounts are JavaScript numbers: payload.action.amount is the IEEE-754 double
\* nearest to the decimal amount. The model holds an amount as its number of
\* thousandths and computes what the double arithmetic yields. An amount of
\* 10 m + 5 thousandths is (2 m + 1) / 200, and its double is (2 m + 1) / 25
\* rounded to 53 significant bits, times a power of two.

RECURSIVE BitLength(_)
BitLength(n) == IF n = 0 THEN 0 ELSE 1 + BitLength(n \div 2)

RECURSIVE Pow2(_)
Pow2(n) == IF n <= 0 THEN 1 ELSE 2 * Pow2(n - 1)

\* the remainder of r / 25 after n more binary digits of the quotient
RECURSIVE Doubled(_, _)
Doubled(r, n) == IF n = 0 THEN r ELSE Doubled((2 * r) % 25, n - 1)

\* the number of zero binary digits that r / 25 < 1 starts with after the point
RECURSIVE LeadingZeros(_)
LeadingZeros(r) == IF 2 * r < 25 THEN 1 + LeadingZeros(2 * r) ELSE 0

\* the double nearest to N / 25: its binary exponent, and its distance from
\* N / 25 as a sign and a number k of 25ths of a unit in the last place
NearestDouble(N) ==
    LET I == N \div 25
        R == N % 25
        z == LeadingZeros(R)
        r == IF I > 0 THEN Doubled(R, 53 - BitLength(I))
             ELSE Doubled(2 * R * Pow2(z) - 25, 52)
        exponent == IF I > 0 THEN BitLength(I) - 1 ELSE 0 - (z + 1)
    IN  IF r = 0 THEN [ sign |-> 0, k |-> 0, exponent |-> exponent ]
        ELSE IF 2 * r > 25 THEN [ sign |-> 1, k |-> 25 - r, exponent |-> exponent ]
        ELSE [ sign |-> -1, k |-> r, exponent |-> exponent ]

\* Number(amount.toFixed(2)), in thousandths: the multiple of 0.01 nearest to
\* the double, the larger one when the double lies exactly between two
ToFixed2(amount) ==
    LET m == amount \div 10
        d == amount % 10
    IN  IF d < 5 THEN 10 * m
        ELSE IF d > 5 THEN 10 * (m + 1)
        ELSE IF NearestDouble(2 * m + 1).sign >= 0 THEN 10 * (m + 1)
        ELSE 10 * m

\* Math.round(amount * 100), in minor units: the product is rounded to a
\* double first; it is m + 0.5 itself unless the amount's double lies more than
\* half the distance to the next double away from it
ToMinorUnits(amount) ==
    LET m == amount \div 10
        d == amount % 10
        x == NearestDouble(2 * m + 1)
        j == (BitLength(2 * m + 1) - 2) - (x.exponent - 3)
        half == IF m > 0 THEN Pow2(j - 1) ELSE Pow2(j - 2)
    IN  IF d < 5 THEN m
        ELSE IF d > 5 THEN m + 1
        ELSE IF x.sign < 0 /\ 4 * x.k > half THEN m
        ELSE m + 1

\* getRazorpayClient: the key pair the client is built with, or that it throws
getRazorpayClient(settings, e) ==
    LET pair ==
            IF settings.mode = "live" /\ settings.liveKeyId # <<>>
                    /\ settings.liveKeySecret # <<>>
            THEN [ keyId |-> settings.liveKeyId, keySecret |-> settings.liveKeySecret ]
            ELSE IF settings.testKeyId # <<>> /\ settings.testKeySecret # <<>>
            THEN [ keyId |-> settings.testKeyId, keySecret |-> settings.testKeySecret ]
            ELSE [ keyId |-> e.RAZORPAY_KEY_ID, keySecret |-> e.RAZORPAY_KEY_SECRET ]
    IN  [ throws |-> (pair.keyId = <<>> \/ pair.keySecret = <<>>),
          keyId |-> pair.keyId, keySecret |-> pair.keySecret,
          settings |-> settings ]

\* getWebhookSecret
getWebhookSecret(settings, e) ==
    IF settings.mode = "live" /\ settings.liveWebhookSecret # <<>>
    THEN settings.liveWebhookSecret
    ELSE IF settings.testWebhookSecret # <<>>
    THEN settings.testWebhookSecret
    ELSE e.RAZORPAY_WEBHOOK_SECRET

\* getSettings as the payment handlers call it: getDocClient() may be null,
\* and docClient.send then throws inside getSettings' try block
LoadSettings(readOk) ==
    getSettings(settingsItem, readOk /\ env.docClient, env.SECRET_KEY)

\* logTransaction: the entry is appended unless the write throws (a null
\* docClient included), which is swallowed
logTransaction(log, entry, logOk) ==
    IF env.docClient /\ logOk THEN Append(log, entry) ELSE log

LogEntry(type, status, amount, paymentId, orderId, error, mode) ==
    [ type |-> type, status |-> status, amount |-> amount,
      razorpayPaymentId |-> paymentId, razorpayOrderId |-> orderId,
      error |-> error, mode |-> mode ]

\* a logTransaction that lets the error of a failed write escape
logTransactionRethrows(writeOk) == ~writeOk

\* whether logTransaction raises to its caller when the write fails: the catch
\* block reports the error and returns
logTransactionThrows(writeOk) == FALSE

\* the log after a handler's logTransaction calls; logOk[i] tells whether the
\* i-th write succeeds
RECURSIVE LogAll(_, _, _)
LogAll(log, entries, logOk) ==
    IF entries = <<>> THEN log
    ELSE LogAll(logTransaction(log, Head(entries), Head(logOk)), Tail(entries), Tail(logOk))

\* what a handler answers after the logTransaction calls of its outcome out:
\* the response it built, unless a call raised; an exception leaves the try
\* block, the logTransaction call of the catch block meets the same backend,
\* and the exception leaves the handler (the framework answers 500)
AfterLogWrites(out, logOk) ==
    IF \E i \in 1..Len(out.entries) : logTransactionThrows(env.docClient /\ logOk[i])
    THEN [ out EXCEPT !.http = 500, !.result = "none", !.amount = 0,
                      !.pspReference = <<>> ]
    ELSE out

PaymentIds == { << "p", "1" >>, << "p", "9" >> }
OrderIds == { << "o", "1" >> }

\* payments the provider knows; p9 is unknown to it
KnownPayments == { << "p", "1" >> }

\* client.payments.fetch(id).status, "none" when the provider has no such payment
PaymentStatus(prov, paymentId) ==
    IF paymentId \in KnownPayments THEN prov.status[paymentId] ELSE "none"

\* number of concurrent charge requests
NumReqs == 2

\* number of payment requests in a behaviour
MaxReq == 1

Reqs == 1..NumReqs

\* a charge request that has not arrived: pc is the handler's position,
\* fetched the status client.payments.fetch returned, capture the outcome of
\* its client.payments.capture call, after the requests answered before it arrived
IdleCharge ==
    [ pc |-> "idle", paymentId |-> <<>>, amount |-> 0, fetched |-> "unreached",
      mode |-> "test", capture |-> "none", http |-> 0, result |-> "none",
      after |-> {} ]

NoPayResp ==
    [ handler |-> "none", http |-> 0, result |-> "none", amount |-> 0,
      pspReference |-> <<>>, request |-> EmptyBody ]

PayIdle ==
    /\ provider = [ status |-> [ p \in KnownPayments |-> "created" ],
                    captureCalls |-> 0, capturedMinor |-> 0,
                    orders |-> <<>>, paidOrder |-> 0 ]
    /\ txLog = <<>>
    /\ payResp = NoPayResp
    /\ charge = [ r \in Reqs |-> IdleCharge ]
    /\ nreq = 0

\* ------------------------------------------------------------ tenants, apps

\* tenant API URLs as presented in requests: with and without trailing slash
Urls == { <<"u">>, <<"u", "/">> }

\* Apps deployed from the prefixing RobustAPL (invoices), by MANIFEST_APP_ID
PrefixedApps == { "inv", "pay" }
\* App deployed from the non-prefixing RobustAPL (smtp)
PlainApps == { "smtp" }
Apps == PrefixedApps \cup PlainApps

\* const appPrefix = process.env.MANIFEST_APP_ID || "invoices"
appPrefix(app) == IF app = "inv" THEN <<"i">> ELSE <<"p">>

\* RobustAPL.getPrefixedUrl: `${appPrefix}:${url}`
getPrefixedUrl(app, url) == appPrefix(app) \o <<":">> \o url

\* the key under which an app addresses the backend for a URL
BackendKey(app, url) ==
    IF app \in PrefixedApps THEN getPrefixedUrl(app, url) ELSE url

\* saleorApiUrl.endsWith("/") ? saleorApiUrl.slice(0, -1) : `${saleorApiUrl}/`
alternativeUrl(url) == IF EndsWithSlash(url) THEN DropLast(url) ELSE url \o <<"/">>

AllUrls == Urls \cup { alternativeUrl(u) : u \in Urls }

AllKeys == { BackendKey(a, u) : a \in Apps, u \in AllUrls }

\* ------------------------------------------------------- backend APL (SDK)

\* apl.get(key): the stored AuthData or undefined
BackendGet(store, key) == IF key \in AllKeys THEN store[key] ELSE Null

\* apl.set(authData): stored under authData.saleorApiUrl, overwriting
BackendSet(store, authData) ==
    [store EXCEPT ![authData.saleorApiUrl] = authData]

\* apl.delete(key)
BackendDelete(store, key) ==
    IF key \in AllKeys THEN [store EXCEPT ![key] = Null] ELSE store

\* apl.getAll()
BackendGetAll(store) == { store[k] : k \in { k \in AllKeys : store[k] # Null } }

\* ----------------------------------------------------------------- RobustAPL

\* RobustAPL.get of the prefixing variant (invoices)
PrefixedGet(store, app, url) ==
    LET first == BackendGet(store, getPrefixedUrl(app, url))
        authData == IF first = Null
                    THEN BackendGet(store, getPrefixedUrl(app, alternativeUrl(url)))
                    ELSE first
    IN  IF authData # Null
        THEN [authData EXCEPT !.saleorApiUrl = url]
        ELSE authData

\* RobustAPL.get of the plain variant (smtp)
PlainGet(store, app, url) ==
    LET first == BackendGet(store, url)
    IN  IF first = Null THEN BackendGet(store, alternativeUrl(url)) ELSE first

RobustGet(store, app, url) ==
    IF app \in PrefixedApps THEN PrefixedGet(store, app, url)
    ELSE PlainGet(store, app, url)

\* RobustAPL.set: the prefixing variant rewrites saleorApiUrl, the plain one
\* passes authData through
RobustSet(store, app, authData) ==
    IF app \in PrefixedApps
    THEN BackendSet(store,
            [authData EXCEPT !.saleorApiUrl = getPrefixedUrl(app, authData.saleorApiUrl)])
    ELSE BackendSet(store, authData)

\* RobustAPL.delete
RobustDelete(store, app, url) == BackendDelete(store, BackendKey(app, url))

\* RobustAPL.getAll: both variants return the backend's list unchanged
RobustGetAll(store, app) == BackendGetAll(store)

\* the AuthData an app hands to set: its own appId, the tenant's token
AuthData(app, url, token) ==
    [saleorApiUrl |-> url, token |-> token, appId |-> app, jwks |-> "jwks"]

NoResp == [op |-> "none", app |-> "", url |-> <<>>, result |-> Null]

AplSet(app, url, token) ==
    /\ backend' = RobustSet(backend, app, AuthData(app, url, token))
    /\ aplResp' = [op |-> "set", app |-> app, url |-> url, result |-> Null]
    /\ UNCHANGED <<allowedUrls, regResp, setVars, payVars>>

AplDelete(app, url) ==
    /\ backend' = RobustDelete(backend, app, url)
    /\ aplResp' = [op |-> "delete", app |-> app, url |-> url, result |-> Null]
    /\ UNCHANGED <<allowedUrls, regResp, setVars, payVars>>

AplGet(app, url) ==
    /\ aplResp' = [op |-> "get", app |-> app, url |-> url,
                   result |-> RobustGet(backend, app, url)]
    /\ UNCHANGED <<backend, allowedUrls, regResp, setVars, payVars>>

AplGetAll(app) ==
    /\ aplResp' = [op |-> "getAll", app |-> app, url |-> <<>>,
                   result |-> RobustGetAll(backend, app)]
    /\ UNCHANGED <<backend, allowedUrls, regResp, setVars, payVars>>

NoReg == [status |-> 0, url |-> <<>>, token |-> <<>>, message |-> "none"]

InitApl ==
    /\ backend = [k \in AllKeys |-> Null]
    /\ aplResp = NoResp
    /\ allowedUrls = [configured |-> FALSE, urls |-> {}]
    /\ regResp = NoReg
    /\ SettingsIdle
    /\ PayIdle

NextApl ==
    \/ \E app \in Apps, url \in Urls, token \in Tokens : AplSet(app, url, token)
    \/ \E app \in Apps, url \in Urls : AplDelete(app, url)
    \/ \E app \in Apps, url \in Urls : AplGet(app, url)
    \/ \E app \in Apps : AplGetAll(app)

SpecApl == InitApl /\ [][NextApl]_vars

\* ------------------------------------------------- registration handshake

\* the app whose manual register handler is modelled (it imports saleorApp
\* and REQUIRED_SALEOR_VERSION from the invoices saleor-app module)
RegApp == "inv"

\* REQUIRED_SALEOR_VERSION = ">=3.10 <4", versions as <<major, minor>>
MinVersion == <<3, 10>>
MaxVersionExclusive == <<4, 0>>

VersionLess(a, b) == a[1] < b[1] \/ (a[1] = b[1] /\ a[2] < b[2])

\* SaleorVersionCompatibilityValidator.validateOrThrow does not throw
VersionCompatible(v) == ~VersionLess(v, MinVersion) /\ VersionLess(v, MaxVersionExclusive)

Versions == { <<3, 9>>, <<3, 10>>, <<3, 20>>, <<4, 0>> }

\* outcomes of fetch(jwksUrl.href): a body (also for an HTTP error status,
\* fetch resolves and .text() is stored) or a network error (fetch rejects)
JwksOutcomes == { "jwks", "errorpage", "network_error" }

RegDone(status, url, token, message) ==
    regResp' = [status |-> status, url |-> url, token |-> token, message |-> message]

\* the manual register handler, from the method check to the response
Register(method, url, token, appId, jwks, version) ==
    /\ UNCHANGED <<aplResp, allowedUrls, setVars, payVars>>
    /\ IF method # "POST"
       THEN RegDone(405, url, token, "method") /\ UNCHANGED backend
       ELSE IF url = <<>> \/ token = <<>>
       THEN RegDone(400, url, token, "Missing required fields") /\ UNCHANGED backend
       ELSE IF allowedUrls.configured /\ url \notin allowedUrls.urls
       THEN RegDone(403, url, token, "URL not allowed") /\ UNCHANGED backend
       ELSE IF appId = ""
       THEN RegDone(400, url, token, "Could not fetch App ID") /\ UNCHANGED backend
       ELSE IF jwks = "network_error"
       THEN RegDone(400, url, token, "fetch failed") /\ UNCHANGED backend
       ELSE \* 5. Set APL, then 6. Verify Saleor Version
            /\ backend' = RobustSet(backend, RegApp,
                   [saleorApiUrl |-> url, token |-> token, appId |-> appId, jwks |-> jwks])
            /\ IF version = <<>>
               THEN RegDone(400, url, token, "Saleor Version couldnt be fetched")
               ELSE IF ~VersionCompatible(version)
               THEN RegDone(400, url, token, "version incompatible")
               ELSE RegDone(200, url, token, "success")

InitReg ==
    /\ backend = [k \in AllKeys |-> Null]
    /\ aplResp = NoResp
    /\ allowedUrls \in { [configured |-> FALSE, urls |-> {}],
                         [configured |-> TRUE, urls |-> { <<"u">> }] }
    /\ regResp = NoReg
    /\ SettingsIdle
    /\ PayIdle

NextReg ==
    \E method \in { "POST", "GET" }, url \in Urls \cup { <<>> },
       token \in Tokens \cup { <<>> }, appId \in { "", RegApp },
       jwks \in JwksOutcomes, version \in Versions \cup { <<>> } :
        Register(method, url, token, appId, jwks, version)

SpecReg == InitReg /\ [][NextReg]_vars

\* C1: a registration request that ends in failure has written no AuthRecord:
\* every step that produces a non-200 register response leaves the APL
\* backend as it was.
C1_FailedRegistrationWritesNothing ==
    [][regResp'.status # 200 => backend' = backend]_vars

\* ---------------------------------------------------- RobustAPL properties

\* the credentials of a record returned by get (Null when absent)
Credentials(rec) ==
    IF rec = Null THEN Null
    ELSE [token |-> rec.token, appId |-> rec.appId, jwks |-> rec.jwks]

StoredFor(app, url) == BackendGet(backend, BackendKey(app, url)) # Null

\* C3: once a record is stored under u or under u with its trailing slash
\* toggled, get(u) and get(toggled u) return the same record (compared on the
\* credentials the record carries).
C3_GetAgreesAcrossSlash ==
    \A app \in Apps, u \in Urls :
        (StoredFor(app, u) \/ StoredFor(app, alternativeUrl(u)))
            => Credentials(RobustGet(backend, app, u))
                 = Credentials(RobustGet(backend, app, alternativeUrl(u)))

\* C4: with several prefixing apps on one backend, a record returned by an
\* app's get or getAll was set through that app, and carries the tenant URL
\* without the app prefix.
C4_AppsIsolated ==
    LET returned == IF aplResp.op = "getAll" THEN aplResp.result
                    ELSE IF aplResp.op = "get" /\ aplResp.result # Null
                    THEN { aplResp.result }
                    ELSE {}
    IN  aplResp.app \in PrefixedApps =>
            \A rec \in returned :
                rec.appId \in PrefixedApps =>
                    /\ rec.appId = aplResp.app
                    /\ rec.saleorApiUrl \in AllUrls

\* C5: the backend holds at most one AuthRecord per app for each tenant
\* identity taken modulo a single trailing slash.
C5_OneRecordPerTenant ==
    \A app \in Apps, u \in Urls :
        ~(StoredFor(app, u) /\ StoredFor(app, alternativeUrl(u)))

\* ------------------------------------------------------------ settings API

\* number of settings saves in a behaviour
MaxClock == 3

KeyIdTest == << "r", "z", "p", "_", "t", "e", "s", "t", "_", "a", "b", "c", "d", "1", "2", "3", "4" >>
KeyIdLive == << "k", "e", "y", "i", "d", "9" >>
SecretA == << "s", "e", "c", "r", "e", "t", "1" >>
SecretB == << "p", "w" >>
WebhookSecretA == << "w", "h", "s", "e", "c", "0" >>

\* POST bodies: Partial<RazorpaySettings>
Bodies ==
    { [ enabled |-> TRUE ],
      [ enabled |-> FALSE ],
      [ mode |-> "live" ],
      [ mode |-> "test" ],
      [ mode |-> "prod" ],
      [ mode |-> "" ],
      [ paymentAction |-> "authorize" ],
      [ paymentAction |-> "capture_now" ],
      [ paymentAction |-> "" ],
      [ debugMode |-> TRUE, title |-> << "T", "2" >> ],
      [ testKeyId |-> KeyIdTest, testKeySecret |-> SecretA ],
      [ testKeySecret |-> SecretB ],
      [ testWebhookSecret |-> WebhookSecretA ],
      [ liveKeyId |-> KeyIdLive, liveKeySecret |-> SecretA ],
      [ liveKeySecret |-> SecretB ],
      [ liveWebhookSecret |-> WebhookSecretA ],
      [ testKeyId |-> <<>> ] }

\* the truth value JavaScript gives a string
Truthy(value) == value # ""

\* body.mode && !["test", "live"].includes(body.mode)
InvalidMode(body) ==
    "mode" \in DOMAIN body /\ Truthy(body.mode) /\ body.mode \notin { "test", "live" }

\* body.paymentAction && !["authorize", "authorize_capture"].includes(body.paymentAction)
InvalidPaymentAction(body) ==
    /\ "paymentAction" \in DOMAIN body
    /\ Truthy(body.paymentAction)
    /\ body.paymentAction \notin { "authorize", "authorize_capture" }

SetDone(op, status, body, input) ==
    setResp' = [ op |-> op, status |-> status, body |-> body,
                 input |-> input, masked |-> maskSettings(input) ]

\* GET /api/settings
SettingsGet(readOk) ==
    /\ UNCHANGED <<aplVars, payVars, env, settingsItem, clock, saves>>
    /\ IF ~env.docClient
       THEN SetDone("GET", 500, EmptyBody, DEFAULT_SETTINGS)
       ELSE SetDone("GET", 200, EmptyBody,
                    getSettings(settingsItem, readOk, env.SECRET_KEY))

\* POST /api/settings
SettingsPost(body, readOk, writeOk) ==
    /\ clock < MaxClock
    /\ UNCHANGED <<aplVars, payVars, env, saves>>
    /\ IF ~env.docClient
       THEN SetDone("POST", 500, body, DEFAULT_SETTINGS) /\ UNCHANGED <<settingsItem, clock>>
       ELSE IF InvalidMode(body)
       THEN SetDone("POST", 400, body, DEFAULT_SETTINGS) /\ UNCHANGED <<settingsItem, clock>>
       ELSE IF InvalidPaymentAction(body)
       THEN SetDone("POST", 400, body, DEFAULT_SETTINGS) /\ UNCHANGED <<settingsItem, clock>>
       ELSE LET saved == saveSettings(settingsItem, body, readOk, clock + 1, env.SECRET_KEY)
            IN  IF writeOk
                THEN /\ settingsItem' = saved.item
                     /\ clock' = clock + 1
                     /\ SetDone("POST", 200, body, saved.merged)
                ELSE /\ SetDone("POST", 500, body, DEFAULT_SETTINGS)
                     /\ UNCHANGED <<settingsItem, clock>>

\* any other method
SettingsOther ==
    /\ UNCHANGED <<aplVars, payVars, env, settingsItem, clock, saves>>
    /\ SetDone("OTHER", IF env.docClient THEN 405 ELSE 500, EmptyBody, DEFAULT_SETTINGS)

AplIdle ==
    /\ backend = [k \in AllKeys |-> Null]
    /\ aplResp = NoResp
    /\ allowedUrls = [configured |-> FALSE, urls |-> {}]
    /\ regResp = NoReg

InitSettings ==
    /\ AplIdle
    /\ env \in { [ EnvDefault EXCEPT !.docClient = d ] : d \in BOOLEAN }
    /\ settingsItem = Null
    /\ clock = 0
    /\ setResp = NoSetResp
    /\ saves = NoSaves
    /\ PayIdle

NextSettings ==
    \/ \E readOk \in BOOLEAN : SettingsGet(readOk)
    \/ \E body \in Bodies, readOk \in BOOLEAN, writeOk \in BOOLEAN :
            SettingsPost(body, readOk, writeOk)
    \/ SettingsOther

SpecSettings == InitSettings /\ [][NextSettings]_vars

\* the settings as stored: what a successful read returns
Stored(item) == getSettings(item, TRUE, env.SECRET_KEY)

\* C6: saveSettings(tenant, P) is a merge-on-write: after it completes every
\* field present in P has P's value and every field absent from P has the
\* value stored before the call (updatedAt apart).
C6_MergeOnWrite ==
    [][ clock' # clock =>
          \A f \in Fields \ { "updatedAt" } :
              Stored(settingsItem')[f] =
                  IF f \in DOMAIN setResp'.body THEN setResp'.body[f]
                  ELSE Stored(settingsItem)[f] ]_vars

SecretEnv == << "e", "n", "v", "s", "e", "c" >>
KeyIdEnv == << "r", "z", "p", "_", "e", "n", "v", "_", "k", "e", "y", "0", "0" >>
WebhookSecretB == << "w", "h", "l", "i", "v", "e" >>

\* the stored item of a settings record, as saveSettings wrote it at time 0
StoredItem(settings) == ItemToStore(settings, 0, EnvDefault.SECRET_KEY)

\* process.env of a deployment: DynamoDB configured or not, fallback keys set or not
Envs ==
    { [ EnvDefault EXCEPT !.docClient = d,
                          !.RAZORPAY_KEY_ID = IF k THEN KeyIdEnv ELSE <<>>,
                          !.RAZORPAY_KEY_SECRET = IF k THEN SecretEnv ELSE <<>>,
                          !.RAZORPAY_WEBHOOK_SECRET = IF k THEN SecretEnv ELSE <<>> ] :
        d \in BOOLEAN, k \in BOOLEAN }

\* tenant configurations saved through the settings API
KeySettings ==
    { [ DEFAULT_SETTINGS EXCEPT !.enabled = TRUE, !.mode = m,
            !.testKeyId = IF t THEN KeyIdTest ELSE <<>>,
            !.testKeySecret = IF t THEN SecretA ELSE <<>>,
            !.liveKeyId = lk, !.liveKeySecret = ls ] :
        m \in { "test", "live" }, t \in BOOLEAN,
        lk \in { <<>>, KeyIdLive }, ls \in { <<>>, SecretB } }

Secrets == { SecretA, SecretB, SecretEnv }

\* a signature with the symbol at position i replaced
Mutated(signature, i) == [ signature EXCEPT ![i] = << "x", signature[i][2] >> ]

\* signatures a client may send for an order and payment id
Signatures(orderId, paymentId) ==
    LET good == { HmacSha256(k, SignedPayload(orderId, paymentId)) : k \in Secrets }
    IN  { <<>> } \cup good \cup { Mutated(g, i) : g \in good, i \in 1..2 }

Amounts == { 0, 100005 }

PayDone(handler, http, result, amount, pspReference, request) ==
    payResp' = [ handler |-> handler, http |-> http, result |-> result,
                 amount |-> amount, pspReference |-> pspReference,
                 request |-> request ]

\* the transaction-process-session handler as a function of its request: the
\* log entry it submits and the response it builds
ProcessOutcome(amount, paymentId, orderId, signature, readOk) ==
    LET missing == paymentId = <<>> \/ orderId = <<>> \/ signature = <<>>
        rz == getRazorpayClient(LoadSettings(readOk), env)
        settings == rz.settings
        keySecret ==
            IF settings.mode = "live" THEN settings.liveKeySecret
            ELSE IF settings.testKeySecret # <<>> THEN settings.testKeySecret
            ELSE env.RAZORPAY_KEY_SECRET
        error ==
            IF missing THEN "Missing Razorpay payment verification data"
            ELSE IF rz.throws THEN "Razorpay API keys not configured"
            ELSE IF keySecret = <<>> THEN "Razorpay Key Secret is missing"
            ELSE "none"
        generatedSignature == HmacSha256(keySecret, SignedPayload(orderId, paymentId))
    IN  IF error # "none"
        THEN \* catch block
             [ entries |-> << LogEntry("process", "failed", amount, <<>>, <<>>,
                                       error, "test") >>,
               http |-> 200, result |-> "CHARGE_FAILURE", amount |-> amount,
               pspReference |-> IF orderId # <<>> THEN orderId ELSE << "unknown" >> ]
        ELSE IF generatedSignature # signature
        THEN [ entries |-> << LogEntry("process", "failed", amount, paymentId, orderId,
                                       "Signature verification failed", settings.mode) >>,
               http |-> 200, result |-> "CHARGE_FAILURE", amount |-> amount,
               pspReference |-> orderId ]
        ELSE [ entries |-> << LogEntry("process", "success", amount, paymentId, orderId,
                                       "none", settings.mode) >>,
               http |-> 200, result |-> "CHARGE_SUCCESS", amount |-> ToFixed2(amount),
               pspReference |-> paymentId ]

\* the transaction-process-session handler, without a bound on the requests
ProcessStep(amount, paymentId, orderId, signature, readOk, logOk) ==
    /\ nreq' = nreq + 1
    /\ UNCHANGED <<aplVars, setVars, provider, charge>>
    /\ LET request == [ amount |-> amount, paymentId |-> paymentId,
                        orderId |-> orderId, signature |-> signature,
                        readOk |-> readOk, logOk |-> logOk ]
           out == AfterLogWrites(
                      ProcessOutcome(amount, paymentId, orderId, signature, readOk),
                      << logOk >>)
       IN  /\ txLog' = LogAll(txLog, out.entries, << logOk >>)
           /\ PayDone("process", out.http, out.result, out.amount, out.pspReference,
                      request)

Process(amount, paymentId, orderId, signature, readOk, logOk) ==
    /\ nreq < MaxReq
    /\ ProcessStep(amount, paymentId, orderId, signature, readOk, logOk)

InitProcess ==
    /\ AplIdle
    /\ env \in Envs
    /\ settingsItem \in { Null } \cup { StoredItem(s) : s \in KeySettings }
    /\ clock = 0
    /\ setResp = NoSetResp
    /\ saves = NoSaves
    /\ PayIdle

\* payload.data of a process request: complete, or with one member missing
ProcessData ==
    LET paymentId == << "p", "1" >>
        orderId == << "o", "1" >>
        good == HmacSha256(SecretA, SignedPayload(orderId, paymentId))
    IN  { << paymentId, orderId, signature >> :
              signature \in Signatures(orderId, paymentId) \ { <<>> } }
        \cup { << <<>>, orderId, good >>, << paymentId, <<>>, good >>,
               << paymentId, orderId, <<>> >> }

NextProcess ==
    \E amount \in Amounts, data \in ProcessData, readOk \in BOOLEAN, logOk \in BOOLEAN :
        Process(amount, data[1], data[2], data[3], readOk, logOk)

SpecProcess == InitProcess /\ [][NextProcess]_vars

\* the key secret of the tenant's active mode, as stored; in test mode without
\* a stored test secret, the deployment's RAZORPAY_KEY_SECRET
ActiveKeySecret ==
    LET stored == Stored(settingsItem)
    IN  IF stored.mode = "live" THEN stored.liveKeySecret
        ELSE IF stored.testKeySecret # <<>> THEN stored.testKeySecret
        ELSE env.RAZORPAY_KEY_SECRET

\* the entries a step appended to the log
Appended == SubSeq(txLog', Len(txLog) + 1, Len(txLog'))

\* C7: for a request that carries both ids, with the settings table and the
\* log readable and writable, the process step answers CHARGE_SUCCESS if and
\* only if the signature equals HMAC-SHA256(order_id|payment_id, key secret of
\* the tenant's active mode); for any other signature it answers
\* CHARGE_FAILURE, appends a failed log entry and appends no success entry.
C7_ChargeSuccessIffSignature ==
    [][ ( /\ nreq' # nreq
          /\ payResp'.handler = "process"
          /\ payResp'.request.orderId # <<>>
          /\ payResp'.request.paymentId # <<>>
          /\ env.docClient /\ payResp'.request.readOk /\ payResp'.request.logOk ) =>
          LET req == payResp'.request
              valid == req.signature =
                          HmacSha256(ActiveKeySecret,
                                     SignedPayload(req.orderId, req.paymentId))
          IN  /\ (payResp'.result = "CHARGE_SUCCESS") <=> valid
              /\ ~valid =>
                    /\ payResp'.result = "CHARGE_FAILURE"
                    /\ \A i \in 1..Len(Appended) : Appended[i].status = "failed"
                    /\ Len(Appended) = 1 ]_vars


\* ------------------------------------------------ provider-direct webhook

\* payment id in a provider event
EventPaymentId == << "p", "a", "y", "_", "1" >>

\* razorpayPaymentId?.startsWith("pay_")
StartsWithPay(id) ==
    Len(id) >= 4 /\ SubSeq(id, 1, 4) = << "p", "a", "y", "_" >>

\* amount of the event entity, in minor units
EventMinor == 10001

\* entity.amount / 100, in thousandths of the major unit
MinorToAmount(minor) == minor * 10

\* request bodies as sent: the event name, whether payload carries the entity
\* the event's branch reads, and whether the sent JSON text is the compact
\* serialisation or has extra whitespace
WebhookBodies ==
    { [ event |-> ev, entity |-> TRUE, compact |-> TRUE ] :
          ev \in { "payment.captured", "payment.failed", "refund.processed",
                   "order.paid" } }
    \cup { [ event |-> "payment.captured", entity |-> TRUE, compact |-> FALSE ],
           [ event |-> "payment.captured", entity |-> FALSE, compact |-> TRUE ] }

\* JSON.stringify(req.body) of the parsed body: the compact serialisation
JsonStringify(body) == [ body EXCEPT !.compact = TRUE ]

\* x-razorpay-signature headers: absent, the provider's signature of the sent
\* text or of its compact form under a secret, or one with a changed character
WebhookSignatures(body) ==
    LET good == { HmacSha256(k, b) : k \in { WebhookSecretA, SecretEnv },
                                     b \in { body, JsonStringify(body) } }
    IN  { <<>> } \cup good
        \cup { Mutated(HmacSha256(WebhookSecretA, JsonStringify(body)), 1) }

WebhookRequest(method, signature, body, readOk, logOk) ==
    [ method |-> method, signature |-> signature, body |-> body,
      readOk |-> readOk, logOk |-> logOk ]

\* the log entry of an event, by its branch
EventEntry(body) ==
    IF body.event = "payment.captured"
    THEN LogEntry("webhook", "success", MinorToAmount(EventMinor), EventPaymentId,
                  << "o", "1" >>, "none",
                  IF StartsWithPay(EventPaymentId) THEN "live" ELSE "test")
    ELSE IF body.event = "payment.failed"
    THEN LogEntry("webhook", "failed", MinorToAmount(EventMinor), EventPaymentId,
                  << "o", "1" >>, "Payment failed", "test")
    ELSE LogEntry("webhook", "success", MinorToAmount(EventMinor), EventPaymentId,
                  <<>>, "none", "test")

\* the provider webhook handler as a function of its request: the log entry it
\* submits, if any, and the response it builds
WebhookOutcome(method, signature, body, readOk) ==
    LET webhookSecret ==
            IF env.docClient THEN getWebhookSecret(LoadSettings(readOk), env)
            ELSE env.RAZORPAY_WEBHOOK_SECRET
        digest == HmacSha256(webhookSecret, JsonStringify(body))
        failed(error) == LogEntry("webhook", "failed", 0, <<>>, <<>>, error, "test")
        answer(entries, http) ==
            [ entries |-> entries, http |-> http, result |-> "none", amount |-> 0,
              pspReference |-> <<>> ]
    IN  IF method # "POST" THEN answer(<<>>, 405)
        ELSE IF signature = <<>> THEN answer(<<>>, 400)
        ELSE IF webhookSecret = <<>> THEN answer(<<>>, 500)
        ELSE IF signature # digest
        THEN answer(<< failed("Invalid webhook signature") >>, 400)
        ELSE IF body.event \in { "payment.captured", "payment.failed",
                                 "refund.processed" }
        THEN IF body.entity
             THEN answer(<< EventEntry(body) >>, 200)
             ELSE \* catch block: reading the entity of an absent payload throws
                  answer(<< failed("TypeError") >>, 500)
        ELSE answer(<<>>, 200)

\* the provider webhook handler
Webhook(method, signature, body, readOk, logOk) ==
    /\ nreq < MaxReq
    /\ nreq' = nreq + 1
    /\ UNCHANGED <<aplVars, setVars, provider, charge>>
    /\ LET out == AfterLogWrites(WebhookOutcome(method, signature, body, readOk),
                                 << logOk >>)
       IN  /\ txLog' = LogAll(txLog, out.entries, << logOk >>)
           /\ PayDone("webhook", out.http, out.result, out.amount, out.pspReference,
                      WebhookRequest(method, signature, body, readOk, logOk))

\* the earlier variant of the provider webhook handler
WebhookEarlier(method, signature, body) ==
    /\ nreq < MaxReq
    /\ nreq' = nreq + 1
    /\ UNCHANGED <<aplVars, setVars, provider, charge, txLog>>
    /\ LET request == WebhookRequest(method, signature, body, TRUE, TRUE)
           webhookSecret == env.RAZORPAY_WEBHOOK_SECRET
           digest == HmacSha256(webhookSecret, JsonStringify(body))
       IN  IF method # "POST"
           THEN PayDone("webhook_earlier", 405, "none", 0, <<>>, request)
           ELSE IF webhookSecret = <<>>
           THEN \* crypto.createHmac throws on an undefined key
                PayDone("webhook_earlier", 500, "none", 0, <<>>, request)
           ELSE IF signature # digest
           THEN PayDone("webhook_earlier", 400, "none", 0, <<>>, request)
           ELSE IF body.event = "payment.captured" /\ ~body.entity
           THEN PayDone("webhook_earlier", 500, "none", 0, <<>>, request)
           ELSE PayDone("webhook_earlier", 200, "none", 0, <<>>, request)

\* tenant configurations of the webhook secret
WebhookSettings ==
    { [ DEFAULT_SETTINGS EXCEPT !.enabled = TRUE, !.mode = m,
            !.testWebhookSecret = t, !.liveWebhookSecret = l ] :
        m \in { "test", "live" }, t \in { <<>>, WebhookSecretA },
        l \in { <<>>, WebhookSecretB } }

InitWebhook ==
    /\ AplIdle
    /\ env \in Envs
    /\ settingsItem \in { Null } \cup { StoredItem(s) : s \in WebhookSettings }
    /\ clock = 0
    /\ setResp = NoSetResp
    /\ saves = NoSaves
    /\ PayIdle

NextWebhook ==
    \E body \in WebhookBodies :
        \E signature \in WebhookSignatures(body) :
            \/ \E io \in { << TRUE, TRUE >>, << FALSE, TRUE >>, << TRUE, FALSE >> } :
                   Webhook("POST", signature, body, io[1], io[2])
            \/ Webhook("GET", signature, body, TRUE, TRUE)
            \/ \E method \in { "POST", "GET" } : WebhookEarlier(method, signature, body)

SpecWebhook == InitWebhook /\ [][NextWebhook]_vars

\* the webhook secret of the tenant: the stored one of the active mode, else the
\* stored test one, else the deployment's RAZORPAY_WEBHOOK_SECRET
TenantWebhookSecret == getWebhookSecret(Stored(settingsItem), env)

\* C8: with the settings table and the log readable and writable and a webhook
\* secret configured for the tenant, a provider webhook POST whose x-razorpay-signature differs from the HMAC-SHA256 of the
\* body (as sent and as re-serialised) under the tenant's webhook secret is
\* answered 400, and exactly one log entry, of type webhook and status failed,
\* is appended: no event of the body is processed.
C8_WebhookMismatchRejectedAndLogged ==
    [][ ( /\ nreq' # nreq
          /\ payResp'.handler \in { "webhook", "webhook_earlier" }
          /\ payResp'.request.method = "POST"
          /\ env.docClient /\ payResp'.request.readOk /\ payResp'.request.logOk
          /\ TenantWebhookSecret # <<>>
          /\ payResp'.request.signature #
                 HmacSha256(TenantWebhookSecret, payResp'.request.body)
          /\ payResp'.request.signature #
                 HmacSha256(TenantWebhookSecret, JsonStringify(payResp'.request.body)) )
        => /\ payResp'.http = 400
           /\ Len(Appended) = 1
           /\ Appended[1].type = "webhook"
           /\ Appended[1].status = "failed" ]_vars


\* ------------------------------------------- transaction-charge-requested

\* amounts of charge requests, in thousandths
ChargeAmounts == { 100005 }

\* a capture decision that ignores the fetched status
ShouldCaptureAlways(status) == status = status

\* payment.status === "authorized"
ShouldCapture(status) == status = "authorized"

ChargeDone(r, c, http, result, amount) ==
    /\ charge' = [ charge EXCEPT ![r] =
                     [ c EXCEPT !.pc = "done", !.http = http, !.result = result ] ]
    /\ PayDone("charge", http, result, amount, c.paymentId,
               [ paymentId |-> c.paymentId, amount |-> c.amount ])

ChargeFailedEntry(c, error) ==
    LogEntry("charge", "failed", c.amount, c.paymentId, <<>>, error, c.mode)

\* the charge handler up to the answer of client.payments.fetch, as a function
\* of its request: whether the fetch answered, and otherwise the log entry it
\* submits and the response it builds
ChargeBeginOutcome(r, paymentId, amount, readOk) ==
    LET rz == getRazorpayClient(LoadSettings(readOk), env)
        status == PaymentStatus(provider, paymentId)
        c == [ charge[r] EXCEPT !.paymentId = paymentId, !.amount = amount,
                   !.mode = IF rz.throws THEN "test" ELSE rz.settings.mode,
                   !.after = { q \in Reqs : charge[q].pc = "done" } ]
        answer(fetched, entries, http, result) ==
            [ c |-> c, fetched |-> fetched, entries |-> entries, http |-> http,
              result |-> result, amount |-> 0, pspReference |-> paymentId ]
    IN  IF paymentId = <<>> THEN answer(FALSE, <<>>, 400, "none")
        ELSE IF rz.throws
        THEN answer(FALSE, << ChargeFailedEntry(c, "Razorpay API keys not configured") >>,
                    200, "CHARGE_FAILURE")
        ELSE IF status = "none"
        THEN answer(FALSE, << ChargeFailedEntry(c, "The id provided does not exist") >>,
                    200, "CHARGE_FAILURE")
        ELSE answer(TRUE, <<>>, 200, "none")

ChargeBegin(r, paymentId, amount, readOk, logOk) ==
    /\ charge[r].pc = "idle"
    /\ IF r = 1 THEN TRUE ELSE charge[r - 1].pc # "idle"
    /\ nreq' = nreq + 1
    /\ UNCHANGED <<aplVars, setVars, provider>>
    /\ LET out == AfterLogWrites(ChargeBeginOutcome(r, paymentId, amount, readOk),
                                 << logOk >>)
       IN  IF out.fetched
           THEN /\ txLog' = txLog
                /\ payResp' = payResp
                /\ charge' = [ charge EXCEPT ![r] =
                                 [ out.c EXCEPT !.pc = "fetched",
                                       !.fetched = PaymentStatus(provider, paymentId) ] ]
           ELSE /\ txLog' = LogAll(txLog, out.entries, << logOk >>)
                /\ ChargeDone(r, out.c, out.http, out.result, out.amount)

\* the charge handler from the answer of fetch to its response, as a function
\* of the request's state c: the capture call it makes and how the provider
\* answers it, the log entry it submits and the response it builds
ChargeFinishOutcome(c) ==
    LET success == LogEntry("charge", "success", c.amount, c.paymentId, <<>>,
                            "none", c.mode)
    IN  IF ShouldCapture(c.fetched)
        THEN IF provider.status[c.paymentId] = "authorized"
             THEN [ capture |-> "accepted", entries |-> << success >>, http |-> 200,
                    result |-> "CHARGE_SUCCESS", amount |-> c.amount,
                    pspReference |-> c.paymentId ]
             ELSE \* the provider rejects the capture; catch block
                  [ capture |-> "rejected",
                    entries |-> << ChargeFailedEntry(c,
                                       "This payment has already been captured") >>,
                    http |-> 200, result |-> "CHARGE_FAILURE", amount |-> 0,
                    pspReference |-> c.paymentId ]
        ELSE [ capture |-> "none", entries |-> << success >>, http |-> 200,
               result |-> "CHARGE_SUCCESS", amount |-> c.amount,
               pspReference |-> c.paymentId ]

ChargeFinish(r, logOk) ==
    /\ charge[r].pc = "fetched"
    /\ UNCHANGED <<aplVars, setVars, nreq>>
    /\ LET c == charge[r]
           out == AfterLogWrites(ChargeFinishOutcome(c), << logOk >>)
       IN  /\ provider' =
                 IF out.capture = "accepted"
                 THEN [ provider EXCEPT !.status[c.paymentId] = "captured",
                                        !.captureCalls = @ + 1,
                                        !.capturedMinor = ToMinorUnits(c.amount) ]
                 ELSE IF out.capture = "rejected"
                 THEN [ provider EXCEPT !.captureCalls = @ + 1 ]
                 ELSE provider
           /\ txLog' = LogAll(txLog, out.entries, << logOk >>)
           /\ ChargeDone(r, [ c EXCEPT !.capture = out.capture ],
                         out.http, out.result, out.amount)

\* the customer pays: the provider authorizes the payment
ProviderAuthorize(paymentId) ==
    /\ provider.status[paymentId] = "created"
    /\ provider' = [ provider EXCEPT !.status[paymentId] = "authorized" ]
    /\ UNCHANGED <<aplVars, setVars, txLog, payResp, charge, nreq>>

\* the provider captures an authorized payment itself (automatic capture of
\* the order, or a capture from the provider's dashboard)
ProviderCapture(paymentId) ==
    /\ provider.status[paymentId] = "authorized"
    /\ provider' = [ provider EXCEPT !.status[paymentId] = "captured" ]
    /\ UNCHANGED <<aplVars, setVars, txLog, payResp, charge, nreq>>

\* tenant configurations a charge request meets
ChargeSettings ==
    { [ DEFAULT_SETTINGS EXCEPT !.enabled = TRUE, !.mode = m,
            !.testKeyId = KeyIdTest, !.testKeySecret = SecretA,
            !.liveKeyId = lk, !.liveKeySecret = IF lk = <<>> THEN <<>> ELSE SecretB ] :
        m \in { "test", "live" }, lk \in { <<>>, KeyIdLive } }

InitCharge ==
    /\ AplIdle
    /\ env \in Envs
    /\ settingsItem \in { Null } \cup { StoredItem(s) : s \in ChargeSettings }
    /\ clock = 0
    /\ setResp = NoSetResp
    /\ saves = NoSaves
    /\ PayIdle

NextCharge ==
    \/ \E r \in Reqs, paymentId \in { <<>> } \cup PaymentIds, amount \in ChargeAmounts,
          readOk \in BOOLEAN, logOk \in BOOLEAN :
           ChargeBegin(r, paymentId, amount, readOk, logOk)
    \/ \E r \in Reqs, logOk \in BOOLEAN : ChargeFinish(r, logOk)
    \/ \E paymentId \in KnownPayments : ProviderAuthorize(paymentId)
    \/ \E paymentId \in KnownPayments : ProviderCapture(paymentId)

SpecCharge == InitCharge /\ [][NextCharge]_vars

\* C9: when two charge requests for the same payment both fetched the status
\* authorized and both called capture, both are answered CHARGE_SUCCESS, also
\* the one whose capture the provider rejected as already captured.
C9_AlreadyCapturedIsSuccess ==
    \A r1 \in Reqs, r2 \in Reqs :
        ( /\ r1 # r2
          /\ charge[r1].pc = "done" /\ charge[r2].pc = "done"
          /\ charge[r1].paymentId = charge[r2].paymentId
          /\ charge[r1].fetched = "authorized" /\ charge[r2].fetched = "authorized"
          /\ charge[r1].capture = "accepted" /\ charge[r2].capture = "rejected" )
        => /\ charge[r1].result = "CHARGE_SUCCESS"
           /\ charge[r2].result = "CHARGE_SUCCESS"

\* charge requests r1 then r2 for one payment in sequence (r1 was answered
\* before r2 arrived), both having reached the provider, nothing but r1 itself
\* capturing the payment while r1 ran, and the payment captured when r2 fetched it
ChargedTwiceInSequence(r1, r2) ==
    /\ r1 # r2
    /\ charge[r1].pc = "done" /\ charge[r2].pc = "done"
    /\ r1 \in charge[r2].after
    /\ charge[r1].paymentId = charge[r2].paymentId
    /\ charge[r1].fetched \in { "authorized", "captured" }
    /\ charge[r1].capture # "rejected"
    /\ charge[r2].fetched = "captured"

ChargeEarlierDone(r, c, http, amount) ==
    /\ charge' = [ charge EXCEPT ![r] =
                     [ c EXCEPT !.pc = "done", !.http = http, !.result = "none" ] ]
    /\ PayDone("charge_earlier", http, "none", amount, c.paymentId,
               [ paymentId |-> c.paymentId, amount |-> c.amount ])

\* the earlier charge handler up to the answer of razorpay.payments.fetch
ChargeEarlierBegin(r, paymentId, amount) ==
    /\ charge[r].pc = "idle"
    /\ IF r = 1 THEN TRUE ELSE charge[r - 1].pc # "idle"
    /\ nreq' = nreq + 1
    /\ UNCHANGED <<aplVars, setVars, provider, txLog>>
    /\ LET status == PaymentStatus(provider, paymentId)
           c == [ charge[r] EXCEPT !.paymentId = paymentId, !.amount = amount,
                      !.after = { q \in Reqs : charge[q].pc = "done" } ]
       IN  IF paymentId = <<>> \/ status = "none"
           THEN ChargeEarlierDone(r, c, 400, 0)
           ELSE /\ payResp' = payResp
                /\ charge' = [ charge EXCEPT ![r] =
                                 [ c EXCEPT !.pc = "fetched", !.fetched = status ] ]

\* the earlier charge handler from the answer of fetch to its response
ChargeEarlierFinish(r) ==
    /\ charge[r].pc = "fetched"
    /\ UNCHANGED <<aplVars, setVars, nreq, txLog>>
    /\ LET c == charge[r]
       IN  IF ShouldCapture(c.fetched)
           THEN IF provider.status[c.paymentId] = "authorized"
                THEN /\ provider' =
                          [ provider EXCEPT !.status[c.paymentId] = "captured",
                                            !.captureCalls = @ + 1,
                                            !.capturedMinor = ToMinorUnits(c.amount) ]
                     /\ ChargeEarlierDone(r, [ c EXCEPT !.capture = "accepted" ],
                                          200, c.amount)
                ELSE /\ provider' = [ provider EXCEPT !.captureCalls = @ + 1 ]
                     /\ ChargeEarlierDone(r, [ c EXCEPT !.capture = "rejected" ],
                                          400, 0)
           ELSE /\ provider' = provider
                /\ ChargeEarlierDone(r, c, 200, c.amount)

\* the earlier variant takes its keys from the validated environment
InitChargeEarlier ==
    /\ AplIdle
    /\ env \in { e \in Envs : e.RAZORPAY_KEY_ID # <<>> /\ e.RAZORPAY_KEY_SECRET # <<>> }
    /\ settingsItem \in { Null } \cup { StoredItem(s) : s \in ChargeSettings }
    /\ clock = 0
    /\ setResp = NoSetResp
    /\ saves = NoSaves
    /\ PayIdle

NextChargeEarlier ==
    \/ \E r \in Reqs, paymentId \in { <<>> } \cup PaymentIds,
          amount \in ChargeAmounts \cup { 0 } :
           ChargeEarlierBegin(r, paymentId, amount)
    \/ \E r \in Reqs : ChargeEarlierFinish(r)
    \/ \E paymentId \in KnownPayments : ProviderAuthorize(paymentId)
    \/ \E paymentId \in KnownPayments : ProviderCapture(paymentId)

SpecChargeEarlier == InitChargeEarlier /\ [][NextChargeEarlier]_vars

\* C11: a charge request that fetched the provider status has called capture
\* if and only if that status was authorized; with any other fetched status it
\* changed nothing at the provider and was answered CHARGE_SUCCESS.
C11_CaptureIffAuthorized ==
    \A r \in Reqs :
        (charge[r].pc = "done" /\ charge[r].fetched # "unreached") =>
            /\ (charge[r].capture # "none") <=> (charge[r].fetched = "authorized")
            /\ charge[r].fetched # "authorized" =>
                   charge[r].result = "CHARGE_SUCCESS"

\* ------------------------------------------- transaction-refund-requested

\* razorpay.payments.refund succeeds for a captured payment only
RefundAccepted(status) == status = "captured"

\* the refund handler: its success body is { transactionId, amount,
\* status: "SUCCESS" }, its error body { errors }, neither with a result member
RefundStep(paymentId, amount) ==
    /\ nreq' = nreq + 1
    /\ UNCHANGED <<aplVars, setVars, txLog, charge>>
    /\ LET request == [ paymentId |-> paymentId, amount |-> amount ]
           status == PaymentStatus(provider, paymentId)
       IN  IF paymentId = <<>>
           THEN /\ provider' = provider
                /\ PayDone("refund", 400, "none", 0, <<>>, request)
           ELSE IF RefundAccepted(status)
           THEN /\ provider' = [ provider EXCEPT !.status[paymentId] = "refunded" ]
                /\ PayDone("refund", 200, "none", amount, paymentId, request)
           ELSE \* catch block
                /\ provider' = provider
                /\ PayDone("refund", 400, "none", 0, paymentId, request)

Refund(paymentId, amount) ==
    /\ nreq < MaxReq
    /\ RefundStep(paymentId, amount)

NextRefund ==
    \/ \E paymentId \in { <<>> } \cup PaymentIds, amount \in ChargeAmounts \cup { 0 } :
           Refund(paymentId, amount)
    \/ \E paymentId \in KnownPayments : ProviderAuthorize(paymentId)
    \/ \E paymentId \in KnownPayments : ProviderCapture(paymentId)

SpecRefund == InitChargeEarlier /\ [][NextRefund]_vars

\* C12: a refund request for a payment the provider refuses to refund (it was
\* never captured) is answered with result REFUND_FAILURE, not with an HTTP
\* error without a result code, and one log entry of type refund and status
\* failed is appended.
C12_RefundFailureStructured ==
    [][ ( /\ nreq' # nreq
          /\ payResp'.handler = "refund"
          /\ payResp'.request.paymentId # <<>>
          /\ ~RefundAccepted(PaymentStatus(provider, payResp'.request.paymentId)) )
        => /\ payResp'.result = "REFUND_FAILURE"
           /\ payResp'.http = 200
           /\ Len(Appended) = 1
           /\ Appended[1].type = "refund"
           /\ Appended[1].status = "failed" ]_vars

\* ------------------------------------------ transaction-initialize-session

\* number of orders the provider creates in a behaviour
MaxOrders == 2

Digit(n) == IF n = 1 THEN "1" ELSE IF n = 2 THEN "2" ELSE IF n = 3 THEN "3" ELSE "4"

\* razorpayOrder.id of the n-th order the provider creates
OrderId(n) == << "o", Digit(n) >>

\* client.orders.create({ amount, currency, receipt, payment_capture }): the
\* order the provider stores, under the account of the client's key id
NewOrder(prov, minor, paymentCapture, keyId, tenant) ==
    [ id |-> OrderId(Len(prov.orders) + 1), amount |-> minor,
      payment_capture |-> paymentCapture, account |-> keyId, tenant |-> tenant ]

\* const paymentCapture = true
PaymentCaptureFlag(settings) == TRUE

\* const paymentCapture = settings.paymentAction === "authorize_capture"
PaymentCaptureFlagEarlier(settings) == settings.paymentAction = "authorize_capture"

\* a gateway check that lets every tenant through
GatewayDisabledNever(settings) == settings.enabled /\ ~settings.enabled

\* if (!settings.enabled) throw
GatewayDisabled(settings) == ~settings.enabled

\* the key id handed to the storefront; <<>> where the handler throws instead
StorefrontKeyId(settings, e) ==
    IF settings.mode = "live" THEN settings.liveKeyId
    ELSE IF settings.testKeyId # <<>> THEN settings.testKeyId
    ELSE e.RAZORPAY_KEY_ID

\* the transaction-initialize-session handler as a function of the settings it
\* loaded: the order it creates (if any), the log entries it submits, in order,
\* and its response
InitializeOutcome(settings, e, amount, createOk, tenant) ==
    LET rz == getRazorpayClient(settings, e)
        failed(error, mode) ==
            LogEntry("initialize", "failed", amount, <<>>, <<>>, error, mode)
        order == NewOrder(provider, ToMinorUnits(amount), PaymentCaptureFlag(settings),
                          rz.keyId, tenant)
        refused(error, mode) ==
            [ created |-> FALSE, order |-> order, entries |-> << failed(error, mode) >>,
              http |-> 400, result |-> "none", amount |-> 0, pspReference |-> <<>> ]
    IN  IF rz.throws THEN refused("Razorpay API keys not configured", "test")
        ELSE IF GatewayDisabled(settings)
        THEN refused("Razorpay payment gateway is disabled", settings.mode)
        ELSE IF ~createOk THEN refused("provider error", settings.mode)
        ELSE LET success == LogEntry("initialize", "success", amount, <<>>, order.id,
                                     "none", settings.mode)
             IN  IF StorefrontKeyId(settings, e) = <<>>
                 THEN [ created |-> TRUE, order |-> order,
                        entries |-> << success,
                                       failed("Razorpay Key ID is missing", settings.mode) >>,
                        http |-> 400, result |-> "none", amount |-> 0,
                        pspReference |-> <<>> ]
                 ELSE [ created |-> TRUE, order |-> order, entries |-> << success >>,
                        http |-> 200, result |-> "CHARGE_ACTION_REQUIRED",
                        amount |-> ToFixed2(amount), pspReference |-> order.id ]

InitializeRequest(amount, readOk, logOk, createOk) ==
    [ amount |-> amount, readOk |-> readOk, logOk |-> logOk, createOk |-> createOk ]

\* the tenant whose settings and log the model holds
Store == "store"

\* the transaction-initialize-session handler, without a bound on the requests
InitializeStep(amount, readOk, logOk, createOk) ==
    /\ Len(provider.orders) < MaxOrders
    /\ nreq' = nreq + 1
    /\ UNCHANGED <<aplVars, setVars, charge>>
    /\ LET out == AfterLogWrites(
                      InitializeOutcome(LoadSettings(readOk), env, amount, createOk, Store),
                      logOk)
       IN  /\ provider' = IF out.created
                          THEN [ provider EXCEPT !.orders = Append(@, out.order) ]
                          ELSE provider
           /\ txLog' = LogAll(txLog, out.entries, logOk)
           /\ PayDone("initialize", out.http, out.result, out.amount, out.pspReference,
                      InitializeRequest(amount, readOk, logOk, createOk))

Initialize(amount, readOk, logOk, createOk) ==
    /\ nreq < MaxReq
    /\ InitializeStep(amount, readOk, logOk, createOk)

\* the earlier variant of the handler as a function of the settings it loaded;
\* it refuses to run without a DynamoDB client, flags the order as the tenant's
\* paymentAction tells, and answers { data: { razorpay_order_id, amount, .. } }
\* with the amount in minor units and without a result code
InitializeEarlierOutcome(settings, e, amount, createOk, tenant) ==
    LET rz == getRazorpayClient(settings, e)
        failed(error, mode) ==
            LogEntry("initialize", "failed", amount, <<>>, <<>>, error, mode)
        order == NewOrder(provider, ToMinorUnits(amount),
                          PaymentCaptureFlagEarlier(settings), rz.keyId, tenant)
        refused(entries) ==
            [ created |-> FALSE, order |-> order, entries |-> entries,
              http |-> 400, result |-> "none", amount |-> 0, pspReference |-> <<>> ]
    IN  IF ~e.docClient THEN refused(<<>>)
        ELSE IF rz.throws
        THEN refused(<< failed("Razorpay API keys not configured", "test") >>)
        ELSE IF GatewayDisabled(settings)
        THEN refused(<< failed("Razorpay payment gateway is disabled", settings.mode) >>)
        ELSE IF ~createOk THEN refused(<< failed("provider error", settings.mode) >>)
        ELSE [ created |-> TRUE, order |-> order,
               entries |-> << LogEntry("initialize", "success", amount, <<>>, order.id,
                                       "none", settings.mode) >>,
               http |-> 200, result |-> "none", amount |-> ToMinorUnits(amount),
               pspReference |-> order.id ]

\* the earlier variant of the transaction-initialize-session handler
InitializeEarlier(amount, readOk, logOk, createOk) ==
    /\ nreq < MaxReq
    /\ Len(provider.orders) < MaxOrders
    /\ nreq' = nreq + 1
    /\ UNCHANGED <<aplVars, setVars, charge>>
    /\ LET out == AfterLogWrites(
                      InitializeEarlierOutcome(LoadSettings(readOk), env, amount,
                                               createOk, Store),
                      logOk)
       IN  /\ provider' = IF out.created
                          THEN [ provider EXCEPT !.orders = Append(@, out.order) ]
                          ELSE provider
           /\ txLog' = LogAll(txLog, out.entries, logOk)
           /\ PayDone("initialize_earlier", out.http, out.result, out.amount,
                      out.pspReference,
                      InitializeRequest(amount, readOk, logOk, createOk))

\* tenant configurations an initialize request meets
InitializeSettings ==
    { [ DEFAULT_SETTINGS EXCEPT !.enabled = en, !.mode = m, !.paymentAction = pa,
            !.testKeyId = IF t THEN KeyIdTest ELSE <<>>,
            !.testKeySecret = IF t THEN SecretA ELSE <<>>,
            !.liveKeyId = KeyIdLive, !.liveKeySecret = SecretB ] :
        en \in BOOLEAN, m \in { "test", "live" },
        pa \in { "authorize", "authorize_capture" }, t \in BOOLEAN }

InitInit ==
    /\ AplIdle
    /\ env \in Envs
    /\ settingsItem \in { Null } \cup { StoredItem(s) : s \in InitializeSettings }
    /\ clock = 0
    /\ setResp = NoSetResp
    /\ saves = NoSaves
    /\ PayIdle

NextInit ==
    \E amount \in Amounts, readOk \in BOOLEAN, createOk \in BOOLEAN :
        \E logOk \in { << TRUE, TRUE >>, << FALSE, TRUE >>, << FALSE, FALSE >> } :
            \/ Initialize(amount, readOk, logOk, createOk)
            \/ InitializeEarlier(amount, readOk, logOk, createOk)

SpecInit == InitInit /\ [][NextInit]_vars

\* a step of an initialize handler, of either variant
IsInitializeStep ==
    /\ nreq' # nreq
    /\ payResp'.handler \in { "initialize", "initialize_earlier" }

C17_AutoCaptureIffConfigured ==
    [][ ( /\ IsInitializeStep
          /\ env.docClient /\ payResp'.request.readOk
          /\ Len(provider'.orders) = Len(provider.orders) + 1 )
        => ( provider'.orders[Len(provider'.orders)].payment_capture
             <=> Stored(settingsItem).paymentAction = "authorize_capture" ) ]_vars

\* ---------------------------------------------------------- payment session

\* number of requests in a session behaviour
MaxSessionReq == 3

\* the key secret of the provider account a key id belongs to
AccountSecret(keyId) ==
    IF keyId = KeyIdTest THEN SecretA
    ELSE IF keyId = KeyIdLive THEN SecretB
    ELSE SecretEnv

\* the stored settings of another tenant of the deployment: gateway enabled, no
\* keys of its own, so that getRazorpayClient falls back to the environment's
OtherTenantItem == StoredItem([ DEFAULT_SETTINGS EXCEPT !.enabled = TRUE ])

\* the initialize handler serving the other tenant (its log and response are
\* not part of the state)
OtherTenantInitialize(amount) ==
    /\ Len(provider.orders) < MaxOrders
    /\ LET out == InitializeOutcome(getSettings(OtherTenantItem, TRUE, env.SECRET_KEY),
                                    env, amount, TRUE, "other")
       IN  /\ out.created
           /\ provider' = [ provider EXCEPT !.orders = Append(@, out.order) ]
    /\ UNCHANGED <<aplVars, setVars, txLog, payResp, charge, nreq>>

\* the customer pays order i at the provider's checkout: the payment is captured
\* at once when the order asks for it, else authorized
ProviderPay(i, paymentId) ==
    /\ i \in 1..Len(provider.orders)
    /\ provider.status[paymentId] = "none"
    /\ provider' = [ provider EXCEPT
                       !.status[paymentId] =
                           IF provider.orders[i].payment_capture THEN "captured"
                           ELSE "authorized",
                       !.paidOrder = i ]
    /\ UNCHANGED <<aplVars, setVars, txLog, payResp, charge, nreq>>

\* razorpay_signature as the provider's checkout hands it to the customer
ProviderSignature(prov, paymentId) ==
    LET order == prov.orders[prov.paidOrder]
    IN  HmacSha256(AccountSecret(order.account), SignedPayload(order.id, paymentId))

\* what a storefront client can send to the process step: the ids and signature
\* of the payment made, as issued or with a character changed, and other ids
SessionProcessData ==
    IF provider.paidOrder = 0 THEN { << << "p", "1" >>, OrderId(1), <<>> >> }
    ELSE LET paymentId == << "p", "1" >>
             issued == ProviderSignature(provider, paymentId)
         IN  { << paymentId, OrderId(n), sig >> :
                   n \in 1..MaxOrders, sig \in { issued, Mutated(issued, 1) } }

\* payload.action.amount of a process request: the amount of the initialize
\* request, or another one
SessionAmounts == ChargeAmounts \cup { 200000 }

InitSession ==
    /\ AplIdle
    /\ env \in { e \in Envs : e.docClient }
    /\ settingsItem \in { Null, OtherTenantItem }
                          \cup { StoredItem(s) : s \in ChargeSettings }
    /\ clock = 0
    /\ setResp = NoSetResp
    /\ saves = NoSaves
    /\ provider = [ status |-> [ p \in KnownPayments |-> "none" ],
                    captureCalls |-> 0, capturedMinor |-> 0,
                    orders |-> <<>>, paidOrder |-> 0 ]
    /\ txLog = <<>>
    /\ payResp = NoPayResp
    /\ charge = [ r \in Reqs |-> IdleCharge ]
    /\ nreq = 0

NextSession ==
    \/ /\ nreq < MaxSessionReq
       /\ \E amount \in ChargeAmounts :
              InitializeStep(amount, TRUE, << TRUE, TRUE >>, TRUE)
    \/ \E amount \in ChargeAmounts : OtherTenantInitialize(amount)
    \/ \E i \in 1..MaxOrders, paymentId \in KnownPayments : ProviderPay(i, paymentId)
    \/ /\ nreq < MaxSessionReq
       /\ \E amount \in SessionAmounts, data \in SessionProcessData :
              ProcessStep(amount, data[1], data[2], data[3], TRUE, TRUE)
    \/ /\ nreq < MaxSessionReq
       /\ \E paymentId \in PaymentIds, amount \in ChargeAmounts : RefundStep(paymentId, amount)
    \/ /\ nreq < MaxSessionReq
       /\ \E r \in Reqs, paymentId \in PaymentIds, amount \in ChargeAmounts :
              ChargeBegin(r, paymentId, amount, TRUE, TRUE)
    \/ \E r \in Reqs : ChargeFinish(r, TRUE)

SpecSession == InitSession /\ [][NextSession]_vars

\* order id oid was created by an initialize step of the tenant
CreatedByStore(prov, oid) ==
    \E i \in 1..Len(prov.orders) :
        prov.orders[i].id = oid /\ prov.orders[i].tenant = Store

\* C13: with tables and log healthy, the process step answers CHARGE_SUCCESS
\* only for an order that an earlier initialize step of the same tenant created,
\* the charge step answers CHARGE_SUCCESS only for a payment of such an order,
\* and the refund step answers success only for a payment that was captured.
C13_NoStateWithoutPredecessor ==
    [][ /\ ( /\ nreq' # nreq /\ charge' = charge
             /\ payResp'.handler = "process"
             /\ payResp'.result = "CHARGE_SUCCESS" )
            => CreatedByStore(provider, payResp'.request.orderId)
        /\ \A r \in Reqs :
              ( /\ charge[r].pc # "done" /\ charge'[r].pc = "done"
                /\ charge'[r].result = "CHARGE_SUCCESS" )
              => /\ provider.paidOrder # 0
                 /\ provider.orders[provider.paidOrder].tenant = Store
        /\ ( /\ nreq' # nreq /\ charge' = charge
             /\ payResp'.handler = "refund"
             /\ payResp'.http = 200 )
            => provider.status[payResp'.request.paymentId] = "captured" ]_vars

\* C14: the process step answers CHARGE_SUCCESS only when the amount of the
\* process request equals, to two decimals, the amount with which the order of
\* the request was initialized.
C14_ProcessRevalidatesAmount ==
    [][ ( /\ nreq' # nreq /\ charge' = charge
          /\ payResp'.handler = "process"
          /\ payResp'.result = "CHARGE_SUCCESS" )
        => \E i \in 1..Len(provider.orders) :
               /\ provider.orders[i].id = payResp'.request.orderId
               /\ provider.orders[i].amount = ToMinorUnits(payResp'.request.amount) ]_vars


\* ------------------------------------------- log writes and the responses

\* outcomes of the two log writes a request may make
LogOutcomes == { << a, b >> : a \in BOOLEAN, b \in BOOLEAN }

\* process requests: a good signature, a bad one, a missing one
LogProcessData ==
    LET paymentId == << "p", "1" >>
        orderId == << "o", "1" >>
        good == HmacSha256(SecretA, SignedPayload(orderId, paymentId))
    IN  { << paymentId, orderId, good >>, << paymentId, orderId, Mutated(good, 1) >>,
          << paymentId, orderId, <<>> >> }

\* provider webhook requests: signed by the provider, or with a changed signature
LogWebhookData ==
    LET body == [ event |-> "payment.captured", entity |-> TRUE, compact |-> TRUE ]
        good == HmacSha256(WebhookSecretA, body)
    IN  { << body, good >>, << body, Mutated(good, 1) >> }

LogSettings ==
    { [ DEFAULT_SETTINGS EXCEPT !.enabled = en, !.testKeyId = KeyIdTest,
            !.testKeySecret = SecretA, !.testWebhookSecret = WebhookSecretA ] :
        en \in BOOLEAN }

LogAmounts == { 100005 }

InitLog ==
    /\ AplIdle
    /\ env \in { e \in Envs : e.RAZORPAY_KEY_ID # <<>> }
    /\ settingsItem \in { Null } \cup { StoredItem(s) : s \in LogSettings }
    /\ clock = 0
    /\ setResp = NoSetResp
    /\ saves = NoSaves
    /\ PayIdle

NextLog ==
    \/ \E amount \in LogAmounts, logOk \in LogOutcomes, createOk \in BOOLEAN :
           Initialize(amount, TRUE, logOk, createOk)
    \/ \E amount \in LogAmounts, data \in LogProcessData, logOk \in BOOLEAN :
           Process(amount, data[1], data[2], data[3], TRUE, logOk)
    \/ \E data \in LogWebhookData, logOk \in BOOLEAN :
           Webhook("POST", data[2], data[1], TRUE, logOk)
    \/ /\ nreq < MaxReq
       /\ \E r \in Reqs, paymentId \in { <<>> } \cup PaymentIds, amount \in LogAmounts,
             logOk \in BOOLEAN :
              ChargeBegin(r, paymentId, amount, TRUE, logOk)
    \/ \E r \in Reqs, logOk \in BOOLEAN : ChargeFinish(r, logOk)
    \/ \E paymentId \in KnownPayments : ProviderAuthorize(paymentId)

SpecLog == InitLog /\ [][NextLog]_vars

\* status code, result code and amount of the response a handler gives for the
\* outcome out when its log writes succeed or fail as logOk tells
Response(out, logOk) ==
    LET answered == AfterLogWrites(out, logOk)
    IN  << answered.http, answered.result, answered.amount >>

C19_EveryResponseHasResultCode ==
    payResp.handler \in { "initialize", "process", "charge" } =>
        payResp.result \in { "CHARGE_SUCCESS", "CHARGE_FAILURE",
                             "CHARGE_ACTION_REQUIRED" }

\* ------------------------------------------- one amount through the steps

\* amounts of the requests, in thousandths: with two decimals, and with a
\* third decimal below, at and above one half of a minor unit
AmountCases == { 100000, 100004, 100005, 100006 }

AmountSettings ==
    [ DEFAULT_SETTINGS EXCEPT !.enabled = TRUE, !.testKeyId = KeyIdTest,
                              !.testKeySecret = SecretA ]

\* process requests for the orders of the tenant, signed with its key secret
AmountProcessData ==
    { << << "p", "1" >>, OrderId(n),
         HmacSha256(SecretA, SignedPayload(OrderId(n), << "p", "1" >>)) >> :
          n \in 1..MaxOrders }

InitAmount ==
    /\ AplIdle
    /\ env \in { e \in Envs : e.docClient }
    /\ settingsItem = StoredItem(AmountSettings)
    /\ clock = 0
    /\ setResp = NoSetResp
    /\ saves = NoSaves
    /\ PayIdle

NextAmount ==
    \/ /\ nreq < MaxSessionReq
       /\ \E amount \in AmountCases :
              InitializeStep(amount, TRUE, << TRUE, TRUE >>, TRUE)
    \/ /\ nreq < MaxSessionReq
       /\ \E amount \in AmountCases, data \in AmountProcessData :
              ProcessStep(amount, data[1], data[2], data[3], TRUE, TRUE)
    \/ /\ nreq < MaxSessionReq
       /\ \E r \in Reqs, amount \in AmountCases :
              ChargeBegin(r, << "p", "1" >>, amount, TRUE, TRUE)
    \/ \E r \in Reqs : ChargeFinish(r, TRUE)
    \/ ProviderAuthorize(<< "p", "1" >>)

SpecAmount == InitAmount /\ [][NextAmount]_vars

\* order i of the provider was created by an initialize request with this amount
InitializedWith(i, amount) ==
    \E n \in 1..Len(txLog) :
        /\ txLog[n].type = "initialize" /\ txLog[n].status = "success"
        /\ txLog[n].razorpayOrderId = provider.orders[i].id
        /\ txLog[n].amount = amount

\* C20: the minor-unit amount an initialize step sends to the provider is 100
\* times the two-decimal amount it echoes to the host; a process step for an
\* order, with the amount the order was initialized with, echoes that same
\* two-decimal amount; and a charge step with that amount captures the minor
\* units of the order.
C20_AmountsAgreeAcrossSteps ==
    [][ /\ ( /\ nreq' # nreq /\ charge' = charge
             /\ payResp'.handler = "initialize" /\ payResp'.http = 200 )
           => payResp'.amount =
                  10 * provider'.orders[Len(provider'.orders)].amount
        /\ ( /\ nreq' # nreq /\ charge' = charge
             /\ payResp'.handler = "process"
             /\ payResp'.result = "CHARGE_SUCCESS" )
           => \A i \in 1..Len(provider.orders) :
                  ( /\ provider.orders[i].id = payResp'.request.orderId
                    /\ InitializedWith(i, payResp'.request.amount) )
                  => payResp'.amount = 10 * provider.orders[i].amount
        /\ provider'.captureCalls # provider.captureCalls
           => \A i \in 1..Len(provider.orders) :
                  ( /\ provider'.status # provider.status
                    /\ InitializedWith(i, payResp'.request.amount) )
                  => provider'.capturedMinor = provider.orders[i].amount ]_vars

\* ------------------------------------------------- transaction logs API

\* number of entries put into the tenant's log, and the last clock reading
MaxLogEntries == 5
MaxLogClock == 4

\* entry types written in a behaviour, and the first 8 characters of
\* crypto.randomUUID()
LogTypes == { "charge" }
Uuids == { 1, 2 }

\* the order of the type names as strings
TypeRank(type) ==
    IF type = "charge" THEN 1 ELSE IF type = "initialize" THEN 2
    ELSE IF type = "process" THEN 3 ELSE IF type = "refund" THEN 4 ELSE 5

\* SK = `${entry.timestamp}#${entry.type}#${uuid8}`; ISO timestamps have a
\* fixed width, so the keys compare as the triples do
SortKey(timestamp, type, uuid) == << timestamp, type, uuid >>

SKLess(a, b) ==
    \/ a[1] < b[1]
    \/ a[1] = b[1] /\ TypeRank(a[2]) < TypeRank(b[2])
    \/ a[1] = b[1] /\ a[2] = b[2] /\ a[3] < b[3]

\* the item logTransaction puts
LogItem(timestamp, type, uuid) ==
    [ PK |-> Store, SK |-> SortKey(timestamp, type, uuid),
      timestamp |-> timestamp, type |-> type ]

\* PutCommand on the tenant's partition, kept in ascending order of SK: an
\* item with an SK already present replaces the stored one
PutCommand(table, item) ==
    LET lower == SelectSeq(table, LAMBDA x : SKLess(x.SK, item.SK))
        upper == SelectSeq(table, LAMBDA x : SKLess(item.SK, x.SK))
    IN  lower \o << item >> \o upper

\* QueryCommand with ScanIndexForward: false, Limit and ExclusiveStartKey: the
\* items after the start key in descending order of SK, at most Limit of them;
\* LastEvaluatedKey is the key of the last item read when the limit stopped
\* the read, and absent when the read reached the end of the partition
QueryCommand(table, limit, startKey) ==
    LET desc == [ i \in 1..Len(table) |-> table[Len(table) + 1 - i] ]
        after == IF startKey = Null THEN desc
                 ELSE SelectSeq(desc, LAMBDA x : SKLess(x.SK, startKey.SK))
        n == IF limit < Len(after) THEN limit ELSE Len(after)
    IN  [ Items |-> SubSeq(after, 1, n), Count |-> n,
          LastEvaluatedKey |->
              IF Len(after) >= limit
              THEN [ PK |-> after[limit].PK, SK |-> after[limit].SK ]
              ELSE Null ]

\* getTransactionLogs; a failing read answers { logs: [], count: 0 }
getTransactionLogs(table, limit, startKey, type, readOk) ==
    IF ~readOk \/ limit < 1
    THEN [ logs |-> <<>>, nextKey |-> Null, count |-> 0 ]
    ELSE LET result == QueryCommand(table, limit, startKey)
         IN  [ logs |-> IF type = Null THEN result.Items
                        ELSE SelectSeq(result.Items, LAMBDA l : l.type = type.name),
               nextKey |-> result.LastEvaluatedKey,
               count |-> result.Count ]

\* Buffer.from(JSON.stringify(key)).toString("base64")
EncodeCursor(key) == [ base64 |-> [ json |-> key ] ]

\* a handler that always starts from the newest entry
ParseCursorIgnored(cursor) == Null

\* JSON.parse(Buffer.from(cursor, "base64").toString("utf-8")), undefined for
\* an absent cursor
ParseCursor(cursor) == IF cursor = Null THEN Null ELSE cursor.base64.json

\* the body of the logs API's 200 response
LogsResponse(table, limit, cursor, type, readOk) ==
    LET parsedLimit == IF limit = Null THEN 25 ELSE limit.n
        result == getTransactionLogs(table,
                      IF parsedLimit < 100 THEN parsedLimit ELSE 100,
                      ParseCursor(cursor), type, readOk)
    IN  [ logs |-> result.logs, count |-> result.count,
          nextCursor |-> IF result.nextKey # Null THEN EncodeCursor(result.nextKey)
                         ELSE Null ]

\* logTransaction writes an entry stamped with the current time
LogPut(type, uuid, writeOk) ==
    /\ Len(txLog) < MaxLogEntries
    /\ txLog' = IF env.docClient /\ writeOk
                THEN PutCommand(txLog, LogItem(clock, type, uuid))
                ELSE txLog
    /\ UNCHANGED <<aplVars, setVars, provider, payResp, charge, nreq>>

\* time passes
LogTick ==
    /\ clock < MaxLogClock
    /\ clock' = clock + 1
    /\ UNCHANGED <<aplVars, payVars, env, settingsItem, setResp, saves>>

\* GET /api/logs?limit&cursor&type
GetLogs(limit, cursor, type, readOk) ==
    /\ UNCHANGED <<aplVars, setVars, provider, txLog, charge, nreq>>
    /\ LET request == [ limit |-> limit, cursor |-> cursor, type |-> type,
                        readOk |-> readOk ]
       IN  IF ~env.docClient
           THEN payResp' = [ handler |-> "logs", http |-> 500, request |-> request,
                             body |-> Null ]
           ELSE payResp' = [ handler |-> "logs", http |-> 200, request |-> request,
                             body |-> LogsResponse(txLog, limit, cursor, type, readOk) ]

\* the cursors a client holds: none, or the nextCursor of the last response
Cursors ==
    { Null } \cup
    IF payResp.handler = "logs" /\ payResp.http = 200
    THEN { payResp.body.nextCursor }
    ELSE {}

InitLogs ==
    /\ AplIdle
    /\ env \in { e \in Envs : e.RAZORPAY_KEY_ID # <<>> }
    /\ settingsItem = Null
    /\ clock = 0
    /\ setResp = NoSetResp
    /\ saves = NoSaves
    /\ PayIdle

\* the log is seeded, then read page by page
NextLogs ==
    \/ /\ payResp = NoPayResp
       /\ \E type \in LogTypes, uuid \in Uuids, writeOk \in BOOLEAN :
              LogPut(type, uuid, writeOk)
    \/ /\ payResp = NoPayResp
       /\ LogTick
    \/ \E limit \in { Null, [ n |-> 0 ], [ n |-> 2 ] }, cursor \in Cursors,
          type \in { Null, [ name |-> "charge" ], [ name |-> "refund" ] },
          readOk \in BOOLEAN :
           GetLogs(limit, cursor, type, readOk)

SpecLogs == InitLogs /\ [][NextLogs]_vars

\* the first page of the tenant's log with limit 2, and the page the returned
\* cursor leads to
Page1 == LogsResponse(txLog, [ n |-> 2 ], Null, Null, TRUE)
Page2 == LogsResponse(txLog, [ n |-> 2 ], Page1.nextCursor, Null, TRUE)

\* the entries visited by following nextCursor from cursor until it is null
RECURSIVE Visit(_, _, _)
Visit(table, cursor, fuel) ==
    LET page == LogsResponse(table, [ n |-> 2 ], cursor, Null, TRUE)
    IN  IF page.nextCursor = Null \/ fuel = 0 THEN page.logs
        ELSE page.logs \o Visit(table, page.nextCursor, fuel - 1)

\* the tenant's log, newest first
NewestFirst == [ i \in 1..Len(txLog) |-> txLog[Len(txLog) + 1 - i] ]

\* the two pages are entries 1-2 and 3-4 of the newest-first order, and
\* following the cursors visits every entry once, in that order
PagesCoverInOrder ==
    /\ Page1.logs = SubSeq(NewestFirst, 1, 2)
    /\ Page2.logs = SubSeq(NewestFirst, 3, 4)
    /\ Visit(txLog, Null, MaxLogEntries + 1) = NewestFirst

DistinctTimestamps ==
    \A i \in 1..Len(txLog), j \in 1..Len(txLog) :
        i # j => txLog[i].timestamp # txLog[j].timestamp

\* C18 as stated: for a log with 5 entries the two pages are entries 1-2 and
\* 3-4 of the newest-first order, following the cursors visits every entry
\* exactly once, and the timestamps strictly decrease across both pages.
C18_PagesStrictlyDecreasingTimestamps ==
    Len(txLog) = 5 =>
        /\ PagesCoverInOrder
        /\ LET both == Page1.logs \o Page2.logs
           IN  \A i \in 1..(Len(both) - 1) : both[i].timestamp > both[i + 1].timestamp

\* C18, amended: for a log with 5 entries the two pages are entries 1-2 and
\* 3-4 of the newest-first order and following the cursors visits every entry
\* exactly once; across both pages the sort keys strictly decrease and the
\* timestamps never increase, and they strictly decrease when the entries of
\* the log have distinct timestamps.
C18_PagesInSortKeyOrder ==
    Len(txLog) = 5 =>
        /\ PagesCoverInOrder
        /\ LET both == Page1.logs \o Page2.logs
           IN  \A i \in 1..(Len(both) - 1) :
                   /\ SKLess(both[i + 1].SK, both[i].SK)
                   /\ both[i].timestamp >= both[i + 1].timestamp
                   /\ DistinctTimestamps => both[i].timestamp > both[i + 1].timestamp

\* a client read the second page of a log of 5 entries with distinct
\* timestamps, using the cursor of the first page
C18_Witness ==
    /\ Len(txLog) = 5
    /\ DistinctTimestamps
    /\ payResp.handler = "logs"
    /\ payResp.http = 200
    /\ payResp.request.cursor # Null
    /\ payResp.request.cursor = Page1.nextCursor
    /\ payResp.body.logs = SubSeq(NewestFirst, 3, 4)

\* ------------------------------------------- credentials of the active mode

\* tenant configurations: each mode with or without its key pair and its
\* webhook secret
ModeSettings ==
    { [ DEFAULT_SETTINGS EXCEPT !.enabled = TRUE, !.mode = m,
            !.testKeyId = IF t THEN KeyIdTest ELSE <<>>,
            !.testKeySecret = IF t THEN SecretA ELSE <<>>,
            !.testWebhookSecret = IF t THEN WebhookSecretA ELSE <<>>,
            !.liveKeyId = IF l THEN KeyIdLive ELSE <<>>,
            !.liveKeySecret = IF l THEN SecretB ELSE <<>>,
            !.liveWebhookSecret = IF lw THEN WebhookSecretB ELSE <<>> ] :
        m \in { "test", "live" }, t \in BOOLEAN, l \in BOOLEAN, lw \in BOOLEAN }

\* a provider webhook signed by the provider with one of the secrets
ModeWebhookBody == [ event |-> "payment.captured", entity |-> TRUE, compact |-> TRUE ]

ModeWebhookSignatures ==
    { HmacSha256(k, ModeWebhookBody) : k \in { WebhookSecretA, WebhookSecretB, SecretEnv } }

InitMode ==
    /\ AplIdle
    /\ env \in { e \in Envs : e.docClient }
    /\ settingsItem \in { Null } \cup { StoredItem(s) : s \in ModeSettings }
    /\ clock = 0
    /\ setResp = NoSetResp
    /\ saves = NoSaves
    /\ PayIdle

NextMode ==
    \/ \E amount \in ChargeAmounts, createOk \in BOOLEAN :
           Initialize(amount, TRUE, << TRUE, TRUE >>, createOk)
    \/ \E signature \in ModeWebhookSignatures :
           Webhook("POST", signature, ModeWebhookBody, TRUE, TRUE)

SpecMode == InitMode /\ [][NextMode]_vars

\* C21: when the tenant's stored mode is live, the provider client is never
\* built with the stored test key id (the order an initialize step creates is
\* never under the test account), and a provider webhook is never accepted
\* under the stored test webhook secret.
C21_LiveModeNeverUsesTestCredentials ==
    [][ ( nreq' # nreq /\ settingsItem # Null /\ Stored(settingsItem).mode = "live" )
        => /\ ( /\ payResp'.handler = "initialize"
                /\ Len(provider'.orders) = Len(provider.orders) + 1 )
              => provider'.orders[Len(provider'.orders)].account # KeyIdTest
           /\ ( /\ payResp'.handler = "webhook"
                /\ payResp'.http = 200 )
              => payResp'.request.signature #
                     HmacSha256(WebhookSecretA, JsonStringify(payResp'.request.body))
      ]_vars

\* ------------------------------------------ masked responses and secrets

SecretFields == { "testKeySecret", "testWebhookSecret",
                  "liveKeySecret", "liveWebhookSecret" }

\* the stored record with the non-empty secret f replaced by v
WithSecret(item, f, v) == [ item EXCEPT ![f] = encrypt(v, << 0, f >>, env.SECRET_KEY) ]

\* bodies the POST handler hands to saveSettings
ValidBodies ==
    { b \in Bodies : ~InvalidMode(b) /\ ~InvalidPaymentAction(b) }

\* C23: for two stored records that differ only in the value of a non-empty
\* key secret or webhook secret, the GET response and the POST response
\* (maskSettings output) are identical in every field.
C23_MaskedResponseIndependentOfSecretValue ==
    ( env.docClient /\ settingsItem # Null ) =>
        \A f \in SecretFields : \A v \in CredValues(f) \ { <<>> } :
            Stored(settingsItem)[f] # <<>> =>
                LET other == WithSecret(settingsItem, f, v)
                IN  /\ \A readOk \in BOOLEAN :
                           maskSettings(getSettings(other, readOk, env.SECRET_KEY))
                               = maskSettings(getSettings(settingsItem, readOk, env.SECRET_KEY))
                    /\ \A body \in ValidBodies, readOk \in BOOLEAN :
                           maskSettings(saveSettings(other, body, readOk, clock + 1, env.SECRET_KEY).merged)
                               = maskSettings(saveSettings(settingsItem, body, readOk, clock + 1, env.SECRET_KEY).merged)

\* ------------------------------------------- saveSettings on a failed read

\* C24: when the read inside saveSettings fails, the record saveSettings
\* writes keeps every stored field that the partial update does not name
\* (updatedAt apart), in particular every stored credential.
C24_FailedReadKeepsStoredFields ==
    ( env.docClient /\ settingsItem # Null ) =>
        \A body \in ValidBodies :
            LET saved == saveSettings(settingsItem, body, FALSE, clock + 1, env.SECRET_KEY)
            IN  \A f \in Fields \ ( DOMAIN body \cup { "updatedAt" } ) :
                    Stored(saved.item)[f] = Stored(settingsItem)[f]

\* ------------------------------------------- initialize: log and response

\* C25: an initialize request appends exactly one initialize log entry, whose
\* status is success if and only if the response is CHARGE_ACTION_REQUIRED,
\* and a provider order is created only by a request that answers
\* CHARGE_ACTION_REQUIRED.
C25_OneInitializeEntryMatchingResponse ==
    [][ ( nreq' # nreq /\ payResp'.handler = "initialize" ) =>
            /\ Len(txLog') = Len(txLog) + 1
            /\ txLog'[Len(txLog')].type = "initialize"
            /\ ( txLog'[Len(txLog')].status = "success" )
                   <=> ( payResp'.result = "CHARGE_ACTION_REQUIRED" )
            /\ Len(provider'.orders) # Len(provider.orders)
                   => payResp'.result = "CHARGE_ACTION_REQUIRED"
      ]_vars

\* ------------------------------------------------------ RobustAPL.delete

\* C26: after RobustAPL.delete(u) completes, get(u) and get(u with its
\* trailing slash toggled) both return null, whichever of the two forms the
\* record was stored under.
C26_DeleteRemovesBothForms ==
    aplResp.op = "delete" =>
        /\ RobustGet(backend, aplResp.app, aplResp.url) = Null
        /\ RobustGet(backend, aplResp.app, alternativeUrl(aplResp.url)) = Null

\* -------------------------------------------------- stored mode and action

\* C29: after any sequence of settings POST requests the stored mode is test
\* or live and the stored paymentAction is authorize or authorize_capture, and
\* a POST rejected for an invalid mode or paymentAction leaves the stored
\* record unchanged.
C29_StoredModeAndActionValid ==
    [][ /\ settingsItem' # Null =>
               /\ settingsItem'.mode \in { "test", "live" }
               /\ settingsItem'.paymentAction \in { "authorize", "authorize_capture" }
        /\ setResp'.status = 400 => settingsItem' = settingsItem ]_vars

\* ------------------------------------------------- dashboard settings form

\* what the user typed into the key inputs of the form
NewKeys == { EmptyBody, [ testKeyId |-> KeyIdTest, testKeySecret |-> SecretB ] }

\* body of saveSettingsHandler: { ...editSettings } with the typed keys over it
FormBody(editSettings, newKeys) ==
    [ f \in DOMAIN editSettings \cup DOMAIN newKeys |->
        IF f \in DOMAIN newKeys THEN newKeys[f] ELSE editSettings[f] ]

\* the dashboard holds the masked settings of the last successful response
FormLoaded == setResp.op \in { "GET", "POST" } /\ setResp.status = 200

\* fetchSettings of the dashboard: GET /api/settings
fetchSettings == SettingsGet(TRUE)

\* saveSettingsHandler of the dashboard: POST of the form to /api/settings
saveSettingsHandler(newKeys, writeOk) ==
    /\ FormLoaded
    /\ SettingsPost(FormBody(setResp.masked, newKeys), TRUE, writeOk)

InitDashboard ==
    /\ AplIdle
    /\ env = EnvDefault
    /\ settingsItem \in { Null } \cup { StoredItem(s) : s \in ModeSettings }
    /\ clock = 0
    /\ setResp = NoSetResp
    /\ saves = NoSaves
    /\ PayIdle

NextDashboard ==
    \/ fetchSettings
    \/ \E newKeys \in NewKeys, writeOk \in BOOLEAN : saveSettingsHandler(newKeys, writeOk)

SpecDashboard == InitDashboard /\ [][NextDashboard]_vars

\* C27: posting back the masked settings object the API returned, without
\* typing new keys, leaves every stored credential unchanged.
C27_PostBackKeepsCredentials ==
    [][ ( clock' # clock /\ FormLoaded /\ setResp'.body = setResp.masked ) =>
            \A f \in CredFields :
                Stored(settingsItem')[f] = Stored(settingsItem)[f] ]_vars

\* ------------------------------------------------ concurrent saveSettings

\* the condition under which the PutCommand of saveSettings is refused by the
\* table for a record that changed since it was read, if it carried one
ConditionExpressionUnchanged(item, seen) == item = seen

\* the PutCommand of saveSettings carries no ConditionExpression: the write
\* replaces the whole item whatever it holds
ConditionExpression(item, seen) == TRUE

\* partial updates of the two calls, over disjoint fields
ConcurrentSettings(c) ==
    IF c = 1
    THEN { [ enabled |-> TRUE ], [ testKeyId |-> KeyIdTest, testKeySecret |-> SecretA ] }
    ELSE { [ mode |-> "live" ], [ liveWebhookSecret |-> WebhookSecretB ] }

\* saveSettings up to the end of `await getSettings(docClient, saleorApiUrl)`
SaveRead(c, settings, readOk) ==
    /\ saves[c].pc = "idle"
    /\ saves' = [ saves EXCEPT ![c] =
                    [ pc |-> "read", settings |-> settings, seen |-> settingsItem,
                      existing |-> getSettings(settingsItem, readOk, env.SECRET_KEY),
                      result |-> "none", at |-> 0 ] ]
    /\ UNCHANGED <<aplVars, payVars, env, settingsItem, clock, setResp>>

\* saveSettings from the merge to the end of `await docClient.send(PutCommand)`
SaveWrite(c, writeOk) ==
    /\ saves[c].pc = "read"
    /\ UNCHANGED <<aplVars, payVars, env, setResp>>
    /\ LET now == clock + 1
           merged == Merged(saves[c].existing, saves[c].settings, now)
       IN  IF ~writeOk
           THEN /\ saves' = [ saves EXCEPT ![c].pc = "done", ![c].result = "failed" ]
                /\ UNCHANGED <<settingsItem, clock>>
           ELSE IF ~ConditionExpression(settingsItem, saves[c].seen)
           THEN /\ saves' = [ saves EXCEPT ![c].pc = "done", ![c].result = "conflict" ]
                /\ UNCHANGED <<settingsItem, clock>>
           ELSE /\ settingsItem' = ItemToStore(merged, now, env.SECRET_KEY)
                /\ clock' = now
                /\ saves' = [ saves EXCEPT ![c].pc = "done", ![c].result = "ok",
                                            ![c].at = now ]

InitConcurrent ==
    /\ AplIdle
    /\ env = EnvDefault
    /\ settingsItem \in { Null } \cup { StoredItem(s) : s \in ModeSettings }
    /\ clock = 0
    /\ setResp = NoSetResp
    /\ saves = NoSaves
    /\ PayIdle

NextConcurrent ==
    \/ \E c \in Calls, readOk \in BOOLEAN :
           \E settings \in ConcurrentSettings(c) : SaveRead(c, settings, readOk)
    \/ \E c \in Calls, writeOk \in BOOLEAN : SaveWrite(c, writeOk)

SpecConcurrent == InitConcurrent /\ [][NextConcurrent]_vars

\* both calls read the record before either wrote, and both are done
ReadsBeforeWrites ==
    /\ \A c \in Calls : saves[c].pc = "done"
    /\ saves[1].seen = saves[2].seen

LastWriter == IF saves[1].at > saves[2].at THEN 1 ELSE 2
FirstWriter == 3 - LastWriter

\* C28: when two saveSettings calls over disjoint fields both read before
\* either writes and the table accepts the writes, both calls succeed, the
\* stored record is the last writer's merge of what it read, and the fields of
\* the first writer's update hold what the last writer read: the first
\* update is lost, and no concurrency check refuses the second write.
C28_LastWriterWins ==
    ( ReadsBeforeWrites /\ \A c \in Calls : saves[c].result # "failed" ) =>
        /\ \A c \in Calls : saves[c].result = "ok"
        /\ \A f \in Fields \ { "updatedAt" } :
               Stored(settingsItem)[f] =
                   IF f \in DOMAIN saves[LastWriter].settings
                   THEN saves[LastWriter].settings[f]
                   ELSE saves[LastWriter].existing[f]
        /\ \A f \in DOMAIN saves[FirstWriter].settings :
               Stored(settingsItem)[f] = saves[LastWriter].existing[f]

\* both calls returned successfully and the stored record lacks the first
\* writer's update
C28_Witness ==
    /\ ReadsBeforeWrites
    /\ \A c \in Calls : saves[c].result = "ok"
    /\ saves[LastWriter].existing = Stored(saves[LastWriter].seen)
    /\ \E f \in DOMAIN saves[FirstWriter].settings :
           Stored(settingsItem)[f] # saves[FirstWriter].settings[f]

\* ------------------------------------------------- logs API: count, type

\* C30: in every logs API response count is the number of entries in logs,
\* with and without a type filter, and every entry has the requested type.
C30_CountIsNumberOfLogs ==
    ( payResp.handler = "logs" /\ payResp.http = 200 ) =>
        /\ payResp.body.count = Len(payResp.body.logs)
        /\ payResp.request.type # Null =>
               \A i \in 1..Len(payResp.body.logs) :
                   payResp.body.logs[i].type = payResp.request.type.name

\* --------------------------------------------------- masking as a function

\* maskSettings applied to a settings record
MaskCall(s) ==
    /\ setResp' = [ op |-> "mask", status |-> 200, body |-> EmptyBody,
                    input |-> s, masked |-> maskSettings(s) ]
    /\ UNCHANGED <<aplVars, payVars, env, settingsItem, clock, saves>>

SettingsRecords ==
    { [ f \in Fields |-> IF f \in CredFields THEN c[f] ELSE DEFAULT_SETTINGS[f] ] :
        c \in { c \in [ CredFields -> KeyIdValues \cup SecretValues \cup WebhookSecretValues ] :
                    \A f \in CredFields : c[f] \in CredValues(f) } }

InitMask ==
    /\ backend = [k \in AllKeys |-> Null]
    /\ aplResp = NoResp
    /\ allowedUrls = [configured |-> FALSE, urls |-> {}]
    /\ regResp = NoReg
    /\ SettingsIdle
    /\ PayIdle

NextMask == \E s \in SettingsRecords : MaskCall(s)

SpecMask == InitMask /\ [][NextMask]_vars

\* a and b share a substring of n characters
SharesSubstring(a, b, n) ==
    \E i \in 1..(Len(a) - n + 1), j \in 1..(Len(b) - n + 1) :
        SubSeq(a, i, i + n - 1) = SubSeq(b, j, j + n - 1)

MaskedStringFields == CredFields \cup { "title", "description" }

\* C2: no string field of maskSettings(s) contains a substring, longer than
\* 4 characters, of a plaintext credential of s.
C2_MaskHidesCredentials ==
    setResp.op = "mask" =>
        \A c \in CredFields, m \in MaskedStringFields :
            ~SharesSubstring(setResp.input[c], setResp.masked[m], ShowLastDefault + 1)


====
